---------------------------- MODULE Spec2Model ----------------------------
(***************************************************************************)
(* A model of cube3d, a software rasterizer written in Rust:               *)
(*   src/src/math.rs      edge function, normals, lighting                 *)
(*   src/src/graphics.rs  draw_triangle (depth-buffered) and draw_line     *)
(*   src/src/widget.rs    the vertex pipeline and the per-frame paint      *)
(*                                                                         *)
(* The program computes in f64.  The model keeps the shape of IEEE-754     *)
(* binary floating point: a value is NaN, an infinity, or a finite dyadic  *)
(* number m * 2^e; every operation computes the exact result and rounds it *)
(* to the nearest value with MantBits significant bits (ties to even).     *)
(* f64 has 53 significant bits, the model has MantBits; the exponent range *)
(* is not bounded (no value of the model comes near the f64 limits).  The  *)
(* two zeros of IEEE-754 are one value here.                               *)
(***************************************************************************)
EXTENDS Integers, Sequences, FiniteSets, TLC

\* Number of significant bits of the model's floating point numbers.
MantBits == 8

---------------------------------------------------------------------------
(* f64 values *)

NaN == [k |-> "nan", m |-> 0, e |-> 0]
PInf == [k |-> "inf", m |-> 1, e |-> 0]
NInf == [k |-> "inf", m |-> -1, e |-> 0]
Zero == [k |-> "fin", m |-> 0, e |-> 0]

IsNaN(x) == x.k = "nan"
IsInf(x) == x.k = "inf"
IsFin(x) == x.k = "fin"

Abs(n) == IF n < 0 THEN -n ELSE n
Sgn(n) == IF n < 0 THEN -1 ELSE IF n > 0 THEN 1 ELSE 0

RECURSIVE BitLen(_)
BitLen(a) == IF a = 0 THEN 0 ELSE 1 + BitLen(a \div 2)

\* The finite value m * 2^e in its one representation: m odd, or zero.
RECURSIVE Canon(_, _)
Canon(m, e) ==
  IF m = 0 THEN Zero
  ELSE IF m % 2 = 0 THEN Canon(m \div 2, e + 1)
  ELSE [k |-> "fin", m |-> m, e |-> e]

\* s * q * 2^e, with q one higher when the lost part r is above the half h,
\* or is the half and q is odd.
RoundUp(s, q, r, h, e) ==
  Canon(s * (IF r > h \/ (r = h /\ q % 2 = 1) THEN q + 1 ELSE q), e)

\* s * a * 2^e with the lowest k bits of a rounded away.
RoundAt(s, a, e, k) ==
  IF k <= 0 THEN Canon(s * a, e)
  ELSE RoundUp(s, a \div (2 ^ k), a % (2 ^ k), 2 ^ (k - 1), e + k)

\* s * a * 2^e (a >= 0) rounded to MantBits significant bits, ties to even.
\* An inexact a carries its lost part as a set lowest bit, below two guard bits.
RoundFin(s, a, e) == RoundAt(s, a, e, BitLen(a) - MantBits)

\* t * 2^e rounded, t of either sign.
RoundInt(t, e) == RoundFin(Sgn(t), Abs(t), e)

\* A finite non-zero value with its significand widened to exactly MantBits bits.
WidenBy(x, d) == [m |-> x.m * (2 ^ d), e |-> x.e - d]
Widen(x) == WidenBy(x, MantBits - BitLen(Abs(x.m)))

\* `n as f64`
FromInt(n) == RoundInt(n, 0)

FNeg(x) == [x EXCEPT !.m = -x.m]

\* The sum of two widened values, hi the one with the higher exponent.  A lo
\* far below hi only tips the rounding.
AddHiLo(hi, lo) ==
  IF hi.e - lo.e > MantBits + 2
  THEN RoundInt(16 * hi.m + Sgn(lo.m), hi.e - 4)
  ELSE RoundInt(hi.m * (2 ^ (hi.e - lo.e)) + lo.m, lo.e)

AddWide(wx, wy) == IF wx.e >= wy.e THEN AddHiLo(wx, wy) ELSE AddHiLo(wy, wx)

\* x + y
FAdd(x, y) ==
  IF IsNaN(x) \/ IsNaN(y) THEN NaN
  ELSE IF IsInf(x) THEN (IF IsInf(y) /\ y.m # x.m THEN NaN ELSE x)
  ELSE IF IsInf(y) THEN y
  ELSE IF x.m = 0 THEN y
  ELSE IF y.m = 0 THEN x
  ELSE AddWide(Widen(x), Widen(y))

\* x - y
FSub(x, y) == FAdd(x, FNeg(y))

\* x * y
FMul(x, y) ==
  IF IsNaN(x) \/ IsNaN(y) THEN NaN
  ELSE IF IsInf(x) \/ IsInf(y)
       THEN (IF x.m = 0 \/ y.m = 0 THEN NaN
             ELSE IF Sgn(x.m) * Sgn(y.m) > 0 THEN PInf ELSE NInf)
  ELSE RoundInt(x.m * y.m, x.e + y.e)

\* s * (n / d) * 2^e for naturals n and d, the quotient cut with a sticky bit.
DivNat(s, n, d, e) == RoundFin(s, 2 * (n \div d) + (IF n % d = 0 THEN 0 ELSE 1), e)

DivWide(s, wx, wy) ==
  DivNat(s, Abs(wx.m) * (2 ^ (MantBits + 2)), Abs(wy.m), wx.e - wy.e - MantBits - 3)

\* x / y
FDiv(x, y) ==
  IF IsNaN(x) \/ IsNaN(y) THEN NaN
  ELSE IF IsInf(x)
       THEN (IF IsInf(y) THEN NaN
             ELSE IF x.m * (IF y.m < 0 THEN -1 ELSE 1) > 0 THEN PInf ELSE NInf)
  ELSE IF IsInf(y) THEN Zero
  ELSE IF y.m = 0
       THEN (IF x.m = 0 THEN NaN ELSE IF x.m > 0 THEN PInf ELSE NInf)
  ELSE IF x.m = 0 THEN Zero
  ELSE DivWide(Sgn(x.m) * Sgn(y.m), Widen(x), Widen(y))

\* The integer square root of n >= 0, found bit by bit from bit b down.
RECURSIVE ISqrtFrom(_, _, _)
ISqrtFrom(n, r, b) ==
  IF b < 0 THEN r
  ELSE ISqrtFrom(n, IF (r + 2 ^ b) * (r + 2 ^ b) <= n THEN r + 2 ^ b ELSE r, b - 1)

\* The root r of n * 2^e (e even), with a sticky bit when it is inexact.
SqrtRoot(n, r, e) == RoundFin(1, 2 * r + (IF r * r = n THEN 0 ELSE 1), (e \div 2) - 1)
SqrtNat(n, e) == SqrtRoot(n, ISqrtFrom(n, 0, MantBits + 3), e)
\* x = (x.m * 2^t) * 2^(x.e - t), with t chosen to leave an even exponent
SqrtShift(x, t) ==
  IF (x.e - t) % 2 = 0 THEN SqrtNat(x.m * (2 ^ t), x.e - t)
  ELSE SqrtNat(x.m * (2 ^ (t + 1)), x.e - t - 1)

\* x.sqrt()
FSqrt(x) ==
  IF IsNaN(x) THEN NaN
  ELSE IF IsInf(x) THEN (IF x.m > 0 THEN PInf ELSE NaN)
  ELSE IF x.m < 0 THEN NaN
  ELSE IF x.m = 0 THEN Zero
  ELSE SqrtShift(x, 2 * MantBits + 4 - BitLen(x.m))

\* Two finite values of the same sign s, not zero, compared: by the place of
\* their highest bits tx and ty, then by their widened significands.
CmpSameSign(s, tx, ty, wx, wy) ==
  IF tx # ty THEN (IF tx < ty THEN -s ELSE s)
  ELSE IF wx.m < wy.m THEN -1 ELSE IF wx.m > wy.m THEN 1 ELSE 0

\* -1, 0 or 1 as x is below, equal to or above y; neither is NaN.
Cmp(x, y) ==
  IF IsInf(x) THEN (IF IsInf(y) /\ y.m = x.m THEN 0 ELSE x.m)
  ELSE IF IsInf(y) THEN -y.m
  ELSE IF Sgn(x.m) # Sgn(y.m) THEN (IF Sgn(x.m) < Sgn(y.m) THEN -1 ELSE 1)
  ELSE IF x.m = 0 THEN 0
  ELSE CmpSameSign(Sgn(x.m), BitLen(Abs(x.m)) + x.e, BitLen(Abs(y.m)) + y.e,
                   Widen(x), Widen(y))

\* x < y, x <= y, x >= y, x == y: false when either is NaN
FLt(x, y) == ~IsNaN(x) /\ ~IsNaN(y) /\ Cmp(x, y) < 0
FLe(x, y) == ~IsNaN(x) /\ ~IsNaN(y) /\ Cmp(x, y) <= 0
FGe(x, y) == ~IsNaN(x) /\ ~IsNaN(y) /\ Cmp(x, y) >= 0
FEq(x, y) == ~IsNaN(x) /\ ~IsNaN(y) /\ Cmp(x, y) = 0

\* f64::min and f64::max: a NaN operand is ignored
FMin(x, y) == IF IsNaN(x) THEN y ELSE IF IsNaN(y) THEN x ELSE IF Cmp(x, y) <= 0 THEN x ELSE y
FMax(x, y) == IF IsNaN(x) THEN y ELSE IF IsNaN(y) THEN x ELSE IF Cmp(x, y) >= 0 THEN x ELSE y

\* The largest integer <= a finite x; values beyond the model's integers saturate.
FloorInt(x) ==
  IF x.e >= 0
  THEN (IF BitLen(Abs(x.m)) + x.e > 30 THEN Sgn(x.m) * 2147483647 ELSE x.m * (2 ^ x.e))
  ELSE IF -x.e > 30 THEN (IF x.m < 0 THEN -1 ELSE 0)
  ELSE x.m \div (2 ^ (-x.e))

\* x.floor() and x.ceil()
FFloor(x) == IF IsFin(x) THEN FromInt(FloorInt(x)) ELSE x
FCeil(x) == IF IsFin(x) THEN FromInt(-FloorInt(FNeg(x))) ELSE x

\* `x as usize`: truncates toward zero and saturates; NaN becomes 0.  The
\* largest integer of the model stands for usize::MAX.
AsUsize(x) ==
  IF IsNaN(x) THEN 0
  ELSE IF IsInf(x) THEN (IF x.m > 0 THEN 2147483647 ELSE 0)
  ELSE IF x.m <= 0 THEN 0
  ELSE FloorInt(x)

\* `x as u8`: truncates toward zero and saturates to 0..255; NaN becomes 0.
SaturateU8(n) == IF n > 255 THEN 255 ELSE n
AsU8(x) == SaturateU8(AsUsize(x))

---------------------------------------------------------------------------
(* src/src/math.rs *)

One == FromInt(1)
Half == Canon(1, -1)
\* The literal 0.1, the ambient floor of the lighting.
Tenth == FDiv(FromInt(1), FromInt(10))

\* (changed: an index slip in the last factor, b[0] - a[1])
EdgeIndexSlip(a, b, c) ==
  FSub(FMul(FSub(c[1], a[1]), FSub(b[2], a[2])),
       FMul(FSub(c[2], a[2]), FSub(b[1], a[2])))
\* Edge function used in rasterization.  Vectors are tuples; the source's
\* index i is index i + 1 here.
edge_function(a, b, c) ==
  FSub(FMul(FSub(c[1], a[1]), FSub(b[2], a[2])),
       FMul(FSub(c[2], a[2]), FSub(b[1], a[1])))

\* a[0] * b[0] + a[1] * b[1] + a[2] * b[2], added left to right
Dot3(a, b) == FAdd(FAdd(FMul(a[1], b[1]), FMul(a[2], b[2])), FMul(a[3], b[3]))
\* (v[0] * v[0] + v[1] * v[1] + v[2] * v[2]).sqrt()
Length3(v) == FSqrt(Dot3(v, v))
\* [v[0] / length, v[1] / length, v[2] / length]
Over3(v, length) == <<FDiv(v[1], length), FDiv(v[2], length), FDiv(v[3], length)>>
Sub3(a, b) == <<FSub(a[1], b[1]), FSub(a[2], b[2]), FSub(a[3], b[3])>>

\* (changed: no ambient floor)
NoFloor(dot_product) == dot_product
\* (changed: the floor by a comparison, which a NaN fails)
FloorByCompare(dot_product) == IF FLt(dot_product, Tenth) THEN Tenth ELSE dot_product
\* dot_product.max(0.1)
AmbientFloor(dot_product) == FMax(dot_product, Tenth)

\* The intensity for the light direction light_dir before it is normalized.
LightAlong(normal, light_dir) ==
  AmbientFloor(Dot3(normal, Over3(light_dir, Length3(light_dir))))

\* Light intensity from the normal, the surface point and the light position.
calculate_light_intensity(normal, position, light_pos) ==
  LightAlong(normal, Sub3(light_pos, position))

\* One colour channel scaled by the intensity: (c as f64 * intensity).min(255.0) as u8
LitChannel(c, intensity) == AsU8(FMin(FMul(FromInt(c), intensity), FromInt(255)))

\* A colour is <<r, g, b, a>>.  Color::rgb8 builds an opaque colour.
apply_lighting(color, intensity) ==
  <<LitChannel(color[1], intensity),
    LitChannel(color[2], intensity),
    LitChannel(color[3], intensity),
    255>>

\* Multiplies a 3x3 matrix (a tuple of rows) by a vector: each sum starts at
\* 0.0 and takes its terms from left to right.
multiply_matrix_vector(matrix, vector) ==
  <<Dot3(matrix[1], vector), Dot3(matrix[2], vector), Dot3(matrix[3], vector)>>

\* Column j of a matrix.
Column(b, j) == <<b[1][j], b[2][j], b[3][j]>>
\* Row i of the product of a and b.
ProductRow(a, b, i) ==
  <<Dot3(a[i], Column(b, 1)), Dot3(a[i], Column(b, 2)), Dot3(a[i], Column(b, 3))>>
\* Multiplies two 3x3 matrices.
multiply_matrices(a, b) == <<ProductRow(a, b, 1), ProductRow(a, b, 2), ProductRow(a, b, 3)>>

\* u x v
Cross(u, v) ==
  <<FSub(FMul(u[2], v[3]), FMul(u[3], v[2])),
    FSub(FMul(u[3], v[1]), FMul(u[1], v[3])),
    FSub(FMul(u[1], v[2]), FMul(u[2], v[1]))>>
\* n divided by its length
Normalized(n) == Over3(n, Length3(n))
\* The normal vector of a triangle.
calculate_normal(a, b, c) == Normalized(Cross(Sub3(b, a), Sub3(c, a)))

---------------------------------------------------------------------------
(* src/src/graphics.rs: draw_triangle *)

\* A vertex is [position, screen_position, normal] (src/src/vertex.rs).
Min3X(v0, v1, v2, i) ==
  FMin(FMin(v0.screen_position[i], v1.screen_position[i]), v2.screen_position[i])
Max3X(v0, v1, v2, i) ==
  FMax(FMax(v0.screen_position[i], v1.screen_position[i]), v2.screen_position[i])

\* Lower and upper end of the bounding box along axis i, the upper one
\* clamped to the last pixel (size is the width or the height).
BoxMin(v0, v1, v2, i) == AsUsize(FMax(FFloor(Min3X(v0, v1, v2, i)), Zero))
\* (changed: the upper end without its clamp to the last pixel)
BoxMaxUnclamped(v0, v1, v2, i, size) == AsUsize(FCeil(Max3X(v0, v1, v2, i)))
BoxMax(v0, v1, v2, i, size) ==
  AsUsize(FMin(FCeil(Max3X(v0, v1, v2, i)), FSub(FromInt(size), One)))

\* The centre of pixel (x, y).
PixelCentre(x, y) == <<FAdd(FromInt(x), Half), FAdd(FromInt(y), Half)>>

\* (changed: the second edge taken from v0 to v2, not from v2 to v0)
EdgeValuesUnturned(v0, v1, v2, p) ==
  <<edge_function(v1.screen_position, v2.screen_position, p),
    edge_function(v0.screen_position, v2.screen_position, p),
    edge_function(v0.screen_position, v1.screen_position, p)>>
\* The three edge values of a point, not yet divided by the area.
EdgeValues(v0, v1, v2, p) ==
  <<edge_function(v1.screen_position, v2.screen_position, p),
    edge_function(v2.screen_position, v0.screen_position, p),
    edge_function(v0.screen_position, v1.screen_position, p)>>

\* The inside test of line 57.
InsideTestStrict(e) == FLt(Zero, e[1]) /\ FLt(Zero, e[2]) /\ FLt(Zero, e[3])
InsideTest(e) == FGe(e[1], Zero) /\ FGe(e[2], Zero) /\ FGe(e[3], Zero)

\* The barycentric weights: the edge values divided by the area.
Weights(e, area) == <<FDiv(e[1], area), FDiv(e[2], area), FDiv(e[3], area)>>

\* (changed: no depth test, the last triangle drawn wins)
DepthTestAlways(pz3d, stored) == TRUE
\* (changed: a depth equal to the stored one passes too)
DepthTestOrEqual(pz3d, stored) == FLe(pz3d, stored)
\* The depth test of line 71.
DepthTest(pz3d, stored) == FLt(pz3d, stored)

\* An attribute interpolated with the barycentric weights.
Interp(a0, a1, a2, w) == FAdd(FAdd(FMul(a0, w[1]), FMul(a1, w[2])), FMul(a2, w[3]))
InterpPosition(v0, v1, v2, w) ==
  <<Interp(v0.position[1], v1.position[1], v2.position[1], w),
    Interp(v0.position[2], v1.position[2], v2.position[2], w),
    Interp(v0.position[3], v1.position[3], v2.position[3], w)>>
InterpNormal(v0, v1, v2, w) ==
  <<Interp(v0.normal[1], v1.normal[1], v2.normal[1], w),
    Interp(v0.normal[2], v1.normal[2], v2.normal[2], w),
    Interp(v0.normal[3], v1.normal[3], v2.normal[3], w)>>
\* The colour of a pixel that passed the depth test (lines 74-93).
ShadePixel(v0, v1, v2, w, pos3d, light_pos_world, base_color) ==
  apply_lighting(base_color,
    calculate_light_intensity(Normalized(InterpNormal(v0, v1, v2, w)), pos3d,
                              light_pos_world))

\* Lines 72 and 92-97: the depth and the four bytes stored at offset.  b is
\* [pixel_data, z_buffer, visited, written, panicked]: the buffers (indexed
\* from 0 as the slices are), the pixels visited and the offsets written so
\* far by this call, and whether an index was out of range.
StorePixelColourOnly(b, offset, pz3d, c) ==
  IF offset * 4 + 3 \notin DOMAIN b.pixel_data
  THEN [b EXCEPT !.panicked = TRUE]
  ELSE [b EXCEPT !.pixel_data[offset * 4] = c[1],
                 !.pixel_data[offset * 4 + 1] = c[2],
                 !.pixel_data[offset * 4 + 2] = c[3],
                 !.pixel_data[offset * 4 + 3] = c[4],
                 !.written = @ \cup {offset}]
StorePixel(b, offset, pz3d, c) ==
  IF offset * 4 + 3 \notin DOMAIN b.pixel_data
  THEN [b EXCEPT !.z_buffer[offset] = pz3d, !.panicked = TRUE]
  ELSE [b EXCEPT !.z_buffer[offset] = pz3d,
                 !.pixel_data[offset * 4] = c[1],
                 !.pixel_data[offset * 4 + 1] = c[2],
                 !.pixel_data[offset * 4 + 2] = c[3],
                 !.pixel_data[offset * 4 + 3] = c[4],
                 !.written = @ \cup {offset}]

\* Lines 70-98 for a pixel inside the triangle, at its interpolated position.
DepthAndShade(v0, v1, v2, b, light_pos_world, base_color, offset, w, pos3d) ==
  IF offset \notin DOMAIN b.z_buffer THEN [b EXCEPT !.panicked = TRUE]
  ELSE IF ~DepthTest(pos3d[3], b.z_buffer[offset]) THEN b
  ELSE StorePixel(b, offset, pos3d[3],
                  ShadePixel(v0, v1, v2, w, pos3d, light_pos_world, base_color))

\* Lines 60-98 for a pixel inside the triangle, with its weights w.
InsidePixel(v0, v1, v2, b, light_pos_world, base_color, offset, w) ==
  DepthAndShade(v0, v1, v2, b, light_pos_world, base_color, offset, w,
                InterpPosition(v0, v1, v2, w))

\* Lines 57-99 for a pixel with edge values e.
TestPixel(v0, v1, v2, b, light_pos_world, base_color, area, offset, e) ==
  IF ~InsideTest(e) THEN b
  ELSE InsidePixel(v0, v1, v2, b, light_pos_world, base_color, offset, Weights(e, area))

\* The body of the two loops for pixel (x, y).
DrawPixel(v0, v1, v2, b, w, light_pos_world, base_color, area, x, y) ==
  TestPixel(v0, v1, v2, [b EXCEPT !.visited = @ \cup {<<x, y>>}], light_pos_world,
            base_color, area, y * w + x, EdgeValues(v0, v1, v2, PixelCentre(x, y)))

\* The inner loop, over x from x to max_x in row y; a panic ends the call.
RECURSIVE DrawRow(_, _, _, _, _, _, _, _, _, _, _)
DrawRow(v0, v1, v2, b, w, light_pos_world, base_color, area, x, max_x, y) ==
  IF x > max_x \/ b.panicked THEN b
  ELSE DrawRow(v0, v1, v2,
               DrawPixel(v0, v1, v2, b, w, light_pos_world, base_color, area, x, y),
               w, light_pos_world, base_color, area, x + 1, max_x, y)

\* The outer loop, over y from y to max_y.
RECURSIVE DrawRows(_, _, _, _, _, _, _, _, _, _, _, _)
DrawRows(v0, v1, v2, b, w, light_pos_world, base_color, area, min_x, max_x, y, max_y) ==
  IF y > max_y \/ b.panicked THEN b
  ELSE DrawRows(v0, v1, v2,
                DrawRow(v0, v1, v2, b, w, light_pos_world, base_color, area, min_x, max_x, y),
                w, light_pos_world, base_color, area, min_x, max_x, y + 1, max_y)

\* The signed area of line 44.
TriangleArea(v0, v1, v2) ==
  edge_function(v0.screen_position, v1.screen_position, v2.screen_position)

\* draw_triangle: the buffers after the call, with what the call wrote.
draw_triangle(v0, v1, v2, pixels, depths, w, h, light_pos_world, base_color) ==
  DrawRows(v0, v1, v2,
           [pixel_data |-> pixels, z_buffer |-> depths,
            visited |-> {}, written |-> {}, panicked |-> FALSE],
           w, light_pos_world, base_color, TriangleArea(v0, v1, v2),
           BoxMin(v0, v1, v2, 1), BoxMax(v0, v1, v2, 1, w),
           BoxMin(v0, v1, v2, 2), BoxMax(v0, v1, v2, 2, h))

---------------------------------------------------------------------------
(* src/src/graphics.rs: draw_line *)

\* x.round(): half away from zero, as a whole number, for a finite x.
RoundMagnitude(q, r, unit) == IF 2 * r >= unit THEN q + 1 ELSE q
RoundHalfAway(x) ==
  IF x.e >= 0 THEN FloorInt(x)
  ELSE IF -x.e > 30 THEN 0
  ELSE Sgn(x.m) * RoundMagnitude(Abs(x.m) \div (2 ^ (-x.e)), Abs(x.m) % (2 ^ (-x.e)), 2 ^ (-x.e))
\* `x.round() as isize`: saturates; NaN becomes 0.  The largest integer of
\* the model stands for isize::MAX.
RoundAsIsize(x) ==
  IF IsNaN(x) THEN 0
  ELSE IF IsInf(x) THEN x.m * 2147483647
  ELSE RoundHalfAway(x)

\* Lines 125-149: the points the loop passes from (x0, y0) to (x1, y1), in
\* order, with error value err; e2 is 2 * err.
RECURSIVE LinePath(_, _, _, _, _, _, _, _, _)
LineStep(x0, y0, x1, y1, dx, dy, sx, sy, err, e2) ==
  LinePath(IF e2 >= dy THEN x0 + sx ELSE x0,
           IF e2 <= dx THEN y0 + sy ELSE y0,
           x1, y1, dx, dy, sx, sy,
           (IF e2 >= dy THEN err + dy ELSE err) + (IF e2 <= dx THEN dx ELSE 0))
LinePath(x0, y0, x1, y1, dx, dy, sx, sy, err) ==
  IF x0 = x1 /\ y0 = y1 THEN <<(<<x0, y0>>)>>
  ELSE <<(<<x0, y0>>)>> \o LineStep(x0, y0, x1, y1, dx, dy, sx, sy, err, 2 * err)

\* Lines 121-124: the path between two rounded points.
PathFrom(x0, y0, x1, y1, dx, dy) ==
  LinePath(x0, y0, x1, y1, dx, dy,
           IF x0 < x1 THEN 1 ELSE -1, IF y0 < y1 THEN 1 ELSE -1, dx + dy)
PathBetween(x0, y0, x1, y1) == PathFrom(x0, y0, x1, y1, Abs(x1 - x0), -Abs(y1 - y0))

\* Lines 126-133: every point of the path that is in the viewport is set to
\* the colour (all four bytes); i is a byte index, i \div 4 its pixel.
OnPath(path, x, y) == \E k \in 1 .. Len(path) : path[k] = <<x, y>>
Plot(pixels, path, w, h, color) ==
  [i \in DOMAIN pixels |->
     IF OnPath(path, (i \div 4) % w, (i \div 4) \div w) THEN color[(i % 4) + 1] ELSE pixels[i]]

\* draw_line: the pixel buffer after the call.
draw_line(x0, y0, x1, y1, pixels, w, h, color) ==
  Plot(pixels,
       PathBetween(RoundAsIsize(x0), RoundAsIsize(y0), RoundAsIsize(x1), RoundAsIsize(y1)),
       w, h, color)

---------------------------------------------------------------------------
(* The rasterizer driven call by call: a caller owns one pixel buffer and  *)
(* one depth buffer of a fixed size, clears them at the start of a frame   *)
(* and draws triangles into them.                                          *)

\* Largest viewport of the model, and most draw_triangle calls in a frame.
MaxWidth == 4
MaxHeight == 3
MaxCalls == 2

\* The buffers and their size; the draw_triangle calls of the frame so far
\* (indices into CallList), the buffers before each, and what the last call
\* wrote; the inputs and the result of calculate_light_intensity; the widget's
\* size and frame count, and the application state (src/src/state.rs); the
\* widget's drag flags and last mouse position, and the events handled so far;
\* what the widget has asked of its event context; the colour given to
\* apply_lighting and its result; the corners of a triangle, a point and their
\* edge values; the state of one draw_line call; the vertices
\* compute_projected_vertices returned; one texel lookup of the textured
\* draw_triangle.
VARIABLES width, height, pixel_data, z_buffer, calls, snaps, last,
          normal, position, light_pos, intensity,
          size, frames_since_last_update, data,
          dragging_rotation, dragging_translation, last_mouse_pos, events, ctx,
          color, shaded, corner, probe, edges, line, vertices, texel

vars == <<width, height, pixel_data, z_buffer, calls, snaps, last,
          normal, position, light_pos, intensity,
          size, frames_since_last_update, data,
          dragging_rotation, dragging_translation, last_mouse_pos, events, ctx,
          color, shaded, corner, probe, edges, line, vertices, texel>>
rasterVars == <<width, height, pixel_data, z_buffer, calls, snaps, last>>
lightVars == <<normal, position, light_pos, intensity>>
pointerVars == <<dragging_rotation, dragging_translation, last_mouse_pos, events, ctx>>
widgetVars == <<size, frames_since_last_update, data, pointerVars>>
pureVars == <<color, shaded, corner, probe, edges, line, vertices, texel>>

\* Point::ZERO; the widget as CubeWidget::new leaves it, no event handled yet.
PointZero == <<Zero, Zero>>
\* The event context before and after WindowConnected: whether the window is
\* connected, the timers pending, the timer events handled, whether a paint
\* is requested, whether QUIT_APP is submitted.
Unconnected ==
  [connected |-> FALSE, timers |-> 0, ticks |-> 0, paint_requested |-> FALSE, quit |-> FALSE]
Connected == [Unconnected EXCEPT !.connected = TRUE, !.timers = 1]
PointerIdle ==
  /\ dragging_rotation = FALSE
  /\ dragging_translation = FALSE
  /\ last_mouse_pos = PointZero
  /\ events = 0
  /\ ctx = Unconnected
\* No call of apply_lighting, edge_function or draw_line is under study.
PureIdle ==
  /\ color = <<0, 0, 0, 0>>
  /\ shaded = <<>>
  /\ corner = <<>>
  /\ probe = <<>>
  /\ edges = <<>>
  /\ vertices = <<>>
  /\ texel = <<>>
  /\ line = [pc |-> "idle"]

\* Size::ZERO, and the application state the program starts with.
SizeZero == [width |-> Zero, height |-> Zero]
InitialState ==
  [angle_x |-> Zero, angle_y |-> Zero, translation |-> <<Zero, Zero>>,
   debug |-> FALSE, paused |-> FALSE, wireframe |-> FALSE, zoom |-> FromInt(1),
   light_position |-> <<FromInt(2), FromInt(2), FromInt(-5)>>]

ClearPixels(w, h) == [i \in 0 .. (w * h * 4 - 1) |-> 0]
ClearDepths(w, h) == [i \in 0 .. (w * h - 1) |-> PInf]

Dy(m, e) == Canon(m, e)

\* A vertex at screen position (sx, sy) and depth z whose world x and y are
\* its screen x and y, with normal n.
Vtx(sx, sy, z, n) ==
  [position |-> <<sx, sy, z>>, screen_position |-> <<sx, sy>>, normal |-> n]

TowardViewer == <<Zero, Zero, FromInt(-1)>>
NoNormal == <<Zero, Zero, Zero>>

Red == <<255, 0, 0, 255>>
White == <<255, 255, 255, 255>>
Cyan == <<0, 255, 255, 255>>

LightFront == <<FromInt(2), FromInt(1), FromInt(-5)>>

\* Triangles: [v0, v1, v2].  F(n) is the whole number n.
F(n) == FromInt(n)
Tri(a, b, c) == [v0 |-> a, v1 |-> b, v2 |-> c]
\* positive area, the upper left half of the viewport, at depth 1
Near == Tri(Vtx(F(0), F(0), F(1), TowardViewer), Vtx(F(0), F(4), F(1), TowardViewer),
            Vtx(F(4), F(0), F(1), TowardViewer))
\* the same positions in the other winding: negative area
NearFlipped == Tri(Near.v0, Near.v2, Near.v1)
\* positive area, the lower right half, depth rising from 0 to 2 across Near's
Tilted == Tri(Vtx(F(4), F(4), F(2), TowardViewer), Vtx(F(4), F(0), F(1), TowardViewer),
              Vtx(F(0), F(4), F(0), TowardViewer))
\* positive area, covering the viewport and more on every side, at depth 2
Wide == Tri(Vtx(F(-3), F(-2), F(2), NoNormal), Vtx(F(-3), F(9), F(2), NoNormal),
            Vtx(F(12), F(-2), F(2), NoNormal))
\* positive area, covering the viewport as Wide does, its depth rising with x
\* from -4 to 11: below Near's on the left, above it on the right
Leaning == Tri(Vtx(F(-3), F(-2), F(-4), NoNormal), Vtx(F(-3), F(9), F(-4), NoNormal),
               Vtx(F(12), F(-2), F(11), NoNormal))
\* positive area, the lower right half: it shares Near's edge from (4, 0) to
\* (0, 4), both vertices and their depth 1, and is nearer away from the edge
Hinged == Tri(Vtx(F(4), F(4), F(0), TowardViewer), Near.v2, Near.v1)
\* wholly outside: beyond the right and lower border, and left of and above it
OutsideFar == Tri(Vtx(F(5), F(4), F(0), TowardViewer), Vtx(F(5), F(8), F(0), TowardViewer),
                  Vtx(F(9), F(4), F(0), TowardViewer))
OutsideNeg == Tri(Vtx(F(-6), F(-5), F(0), TowardViewer), Vtx(F(-6), F(-1), F(0), TowardViewer),
                  Vtx(F(-2), F(-5), F(0), TowardViewer))
\* collinear: three points of the diagonal through the pixel centres
Collinear == Tri(Vtx(F(0), F(0), F(-1), TowardViewer), Vtx(F(2), F(2), F(-1), TowardViewer),
                 Vtx(F(3), F(3), F(-1), TowardViewer))
\* coincident: three times the centre of pixel (1, 1)
Coincident == Tri(Vtx(Dy(3, -1), Dy(3, -1), F(-1), TowardViewer),
                  Vtx(Dy(3, -1), Dy(3, -1), F(-1), TowardViewer),
                  Vtx(Dy(3, -1), Dy(3, -1), F(-1), TowardViewer))
\* three points so close to one line that the computed area is exactly 0
Sliver == Tri(Vtx(Dy(-53, -4), Dy(3, 1), F(-1), TowardViewer),
              Vtx(Dy(255, -7), Dy(-1, -4), F(-1), TowardViewer),
              Vtx(Dy(159, -8), Dy(3, -1), F(-1), TowardViewer))

\* The draw_triangle calls the caller chooses from: [tri, light, color].
Call(t, l, c) == [tri |-> t, light |-> l, color |-> c]
CallList ==
  << Call(Near, LightFront, Red), Call(Near, LightFront, Cyan),
     Call(NearFlipped, LightFront, Red),
     Call(Tilted, LightFront, Cyan), Call(Wide, LightFront, Red),
     Call(OutsideFar, LightFront, Red), Call(OutsideNeg, LightFront, Red),
     Call(Collinear, LightFront, Red), Call(Coincident, LightFront, Red),
     Call(Sliver, LightFront, Red), Call(Leaning, LightFront, Cyan),
     Call(Hinged, LightFront, Cyan) >>

\* draw_triangle applied to call c and the buffers b
Draw(c, b, w, h) ==
  draw_triangle(c.tri.v0, c.tri.v1, c.tri.v2, b.pixel_data, b.z_buffer, w, h, c.light, c.color)

\* The viewports of the model: <<width, height>>.
Viewports == {<<1, 1>>, <<MaxWidth, 1>>, <<MaxWidth, MaxHeight>>}

Init ==
  /\ \E v \in Viewports : width = v[1] /\ height = v[2]
  /\ pixel_data = ClearPixels(width, height)
  /\ z_buffer = ClearDepths(width, height)
  /\ calls = <<>>
  /\ snaps = <<>>
  /\ last = [visited |-> {}, written |-> {}, panicked |-> FALSE]
  /\ normal = NoNormal
  /\ position = NoNormal
  /\ light_pos = NoNormal
  /\ intensity = <<>>
  /\ size = SizeZero
  /\ frames_since_last_update = 0
  /\ data = InitialState
  /\ PointerIdle
  /\ PureIdle

Buffers == [pixel_data |-> pixel_data, z_buffer |-> z_buffer]

\* The caller's state after call i returned r.
Drawn(i, r) ==
  /\ pixel_data' = r.pixel_data
  /\ z_buffer' = r.z_buffer
  /\ last' = [visited |-> r.visited, written |-> r.written, panicked |-> r.panicked]
  /\ calls' = Append(calls, i)
  /\ snaps' = Append(snaps, Buffers)

\* One call of draw_triangle on the caller's buffers.
DrawTriangle(i) ==
  /\ Len(calls) < MaxCalls
  /\ ~last.panicked
  /\ Drawn(i, Draw(CallList[i], Buffers, width, height))
  /\ UNCHANGED <<width, height>>
  /\ UNCHANGED lightVars
  /\ UNCHANGED pureVars
  /\ UNCHANGED widgetVars

\* The start of the next frame: fresh buffers (widget.rs, lines 344-345).
NewFrame ==
  /\ calls # <<>>
  /\ ~last.panicked
  /\ pixel_data' = ClearPixels(width, height)
  /\ z_buffer' = ClearDepths(width, height)
  /\ calls' = <<>>
  /\ snaps' = <<>>
  /\ last' = [visited |-> {}, written |-> {}, panicked |-> FALSE]
  /\ UNCHANGED <<width, height>>
  /\ UNCHANGED lightVars
  /\ UNCHANGED pureVars
  /\ UNCHANGED widgetVars

Next ==
  \/ \E i \in 1 .. Len(CallList) : DrawTriangle(i)
  \/ NewFrame

Spec == Init /\ [][Next]_vars
---------------------------------------------------------------------------
(* The claims about draw_triangle, under Spec *)

\* The last call of the frame: its index, its entry of CallList, the buffers it
\* was given and the area of its triangle.
LastIndex == calls[Len(calls)]
LastCall == CallList[LastIndex]
Before == snaps[Len(snaps)]
LastArea == TriangleArea(LastCall.tri.v0, LastCall.tri.v1, LastCall.tri.v2)
Offsets == 0 .. (width * height - 1)

\* C1: within a frame no entry of the depth buffer ever increases: a
\* draw_triangle call leaves an entry as it was or replaces it by a strictly
\* smaller value, so every entry stays at or below its value at the start of
\* the frame, +infinity.
C1_DepthNeverIncreases ==
  [][calls' # <<>> =>
       \A o \in Offsets :
          /\ z_buffer'[o] = z_buffer[o] \/ FLt(z_buffer'[o], z_buffer[o])
          /\ FLe(z_buffer'[o], snaps'[1].z_buffer[o])
          /\ snaps'[1].z_buffer[o] = PInf]_vars

\* C1 witness: a second call of a frame lowered a depth the first call stored.
C1_Witness ==
  /\ Len(calls) = 2
  /\ \E o \in Offsets :
        /\ FLt(Before.z_buffer[o], PInf)
        /\ FLt(z_buffer[o], Before.z_buffer[o])

\* Every pixel of the set lies in the viewport and indexes both buffers in
\* range.
InRange(visits) ==
  \A p \in visits :
     /\ p[1] \in 0 .. (width - 1)
     /\ p[2] \in 0 .. (height - 1)
     /\ p[2] * width + p[1] < width * height
     /\ (p[2] * width + p[1]) * 4 + 3 < width * height * 4

\* C2: draw_triangle stays inside the buffers: whatever the screen positions
\* and for any width >= 1 and height >= 1, every pixel it visits has
\* 0 <= x <= width - 1 and 0 <= y <= height - 1, so its depth index is below
\* width * height, its last byte index below width * height * 4, and no index
\* is out of range.
C2_NoAccessOutOfRange ==
  calls # <<>> =>
    /\ ~last.panicked
    /\ InRange(last.visited)
    /\ last.written \subseteq Offsets

\* C2 witness: a triangle reaching beyond every border of the viewport was
\* drawn and filled the last pixel of the last row.
C2_Witness ==
  /\ calls # <<>>
  /\ LastCall.tri = Wide
  /\ width = MaxWidth
  /\ height = MaxHeight
  /\ (width * height - 1) \in last.written

\* The three edge values share the sign of the area, zero included.
SharesSign(e, area) ==
  \/ FLt(Zero, area) /\ FGe(e[1], Zero) /\ FGe(e[2], Zero) /\ FGe(e[3], Zero)
  \/ FLt(area, Zero) /\ FLe(e[1], Zero) /\ FLe(e[2], Zero) /\ FLe(e[3], Zero)
\* Each pixel of visits was written by the last call exactly when its edge
\* values share the sign of the area.
InsideIffSharesSign(t, visits, area) ==
  \A p \in visits :
     ((p[2] * width + p[1]) \in last.written)
       <=> SharesSign(EdgeValues(t.v0, t.v1, t.v2, PixelCentre(p[1], p[2])), area)

\* C3: triangles of either winding are rasterized: for a triangle whose area is
\* not zero, drawn on cleared buffers, a pixel of the clamped bounding box is
\* treated as inside (and so written) exactly when its three edge values share
\* the sign of the area, zero included.
C3_EitherWinding ==
  (Len(calls) = 1 /\ ~FEq(LastArea, Zero)) =>
    InsideIffSharesSign(LastCall.tri, last.visited, LastArea)

\* C4: a triangle whose signed area is exactly zero is skipped: the call
\* leaves every byte of pixel_data and every entry of z_buffer as it was.
C4_DegenerateSkipped ==
  (calls # <<>> /\ FEq(LastArea, Zero)) =>
    /\ pixel_data = Before.pixel_data
    /\ z_buffer = Before.z_buffer

\* C5: drawing is idempotent: after the same call is made twice on cleared
\* buffers the second call has written nothing, and both buffers are as the
\* first call left them.
C5_SecondCallWritesNothing ==
  (Len(calls) = 2 /\ calls[1] = calls[2]) =>
    /\ last.written = {}
    /\ pixel_data = Before.pixel_data
    /\ z_buffer = Before.z_buffer

\* C5 witness: the same call twice, the first of which wrote pixels.
C5_Witness ==
  /\ Len(calls) = 2
  /\ calls[1] = calls[2]
  /\ \E o \in Offsets : FLt(Before.z_buffer[o], PInf) /\ Before.pixel_data[o * 4] > 0

\* The last two calls of the frame made in the other order, on the buffers the
\* first of them was given; and each of the two alone on cleared buffers.
Swapped ==
  Draw(CallList[calls[Len(calls) - 1]],
       Draw(LastCall, snaps[Len(snaps) - 1], width, height), width, height)
AloneLast ==
  Draw(LastCall,
       [pixel_data |-> ClearPixels(width, height), z_buffer |-> ClearDepths(width, height)],
       width, height)
AlonePrevious ==
  Draw(CallList[calls[Len(calls) - 1]],
       [pixel_data |-> ClearPixels(width, height), z_buffer |-> ClearDepths(width, height)],
       width, height)
\* Both triangles cover pixel o, at the same depth.
DepthTie(a, b, o) ==
  /\ o \in a.written
  /\ o \in b.written
  /\ a.z_buffer[o] = b.z_buffer[o]

\* C6 as stated: the pixel buffer of a frame does not depend on the order of
\* its draw_triangle calls: exchanging two calls that follow each other (and so
\* any permutation) leaves the pixel buffer the same.
C6_OrderIndependent ==
  Len(calls) >= 2 => Swapped.pixel_data = pixel_data

\* The buffers sw and now agree on the depths, and on every pixel that the
\* triangles drawn alone as a and b do not cover at the same depth.
SameButTies(sw, now, a, b) ==
  /\ sw.z_buffer = now.z_buffer
  /\ \A o \in Offsets :
        DepthTie(a, b, o)
        \/ \A c \in 0 .. 3 : sw.pixel_data[o * 4 + c] = now.pixel_data[o * 4 + c]

\* C6 as amended: the depth buffer does not depend on the order of the calls,
\* and neither does a pixel unless two of the triangles cover it at the same
\* depth (of two such triangles the one drawn first keeps the pixel).
C6_OrderIndependentButTies ==
  Len(calls) >= 2 => SameButTies(Swapped, Buffers, AlonePrevious, AloneLast)

\* The last call took pixel o, which the call before it had covered at
\* another depth, and changed its colour.
TookPixel(a, b, o) ==
  /\ o \in a.written
  /\ ~DepthTie(a, b, o)
  /\ \E c \in 0 .. 3 : Before.pixel_data[o * 4 + c] # pixel_data[o * 4 + c]

\* C6 witness: two overlapping triangles of different colours and different
\* depths were drawn, the nearer one last, and it took a pixel from the other.
C6_Witness ==
  /\ Len(calls) = 2
  /\ calls[1] # calls[2]
  /\ \E o \in last.written : TookPixel(AlonePrevious, AloneLast, o)
---------------------------------------------------------------------------
(* calculate_light_intensity on its own, and through draw_triangle *)

\* Inputs: vectors of halves, <<a, b, c>> standing for (a / 2, b / 2, c / 2).
Halves(t) == <<FMul(Half, FromInt(t[1])), FMul(Half, FromInt(t[2])), FMul(Half, FromInt(t[3]))>>
\* x * 2, a whole number for a value of halves
Twice(x) == FloorInt(FMul(FromInt(2), x))

\* The unit normals along the axes, and two that a normalization computed.
AxisNormals ==
  { <<One, Zero, Zero>>, <<FromInt(-1), Zero, Zero>>, <<Zero, One, Zero>>,
    <<Zero, FromInt(-1), Zero>>, <<Zero, Zero, One>>, <<Zero, Zero, FromInt(-1)>> }
UnitNormals ==
  AxisNormals \cup { Normalized(<<One, One, Zero>>), Normalized(<<FromInt(3), Zero, FromInt(-4)>>) }
SurfacePoints == { Halves(<<0, 0, 0>>), Halves(<<1, 1, 2>>), Halves(<<2, -2, -2>>) }
LightPoints ==
  SurfacePoints \cup
  { Halves(<<4, 2, -10>>), Halves(<<0, 0, -10>>), Halves(<<0, 0, 6>>), Halves(<<8, 0, 0>>),
    Halves(<<6, 8, 0>>), Halves(<<1, 1, -10>>), Halves(<<-3, -2, -2>>), Halves(<<2, 5, -2>>) }

\* A triangle over the one pixel of a 1 x 1 viewport, all of whose vertices
\* carry the surface point p and the normal n: the pixel is shaded at p.
SampleVtx(sx, sy, p, n) == [position |-> p, screen_position |-> <<sx, sy>>, normal |-> n]
Sample(p, n) ==
  Tri(SampleVtx(F(0), F(0), p, n), SampleVtx(F(0), F(2), p, n), SampleVtx(F(2), F(0), p, n))

InitLight ==
  /\ width = 1
  /\ height = 1
  /\ pixel_data = ClearPixels(width, height)
  /\ z_buffer = ClearDepths(width, height)
  /\ calls = <<>>
  /\ snaps = <<>>
  /\ last = [visited |-> {}, written |-> {}, panicked |-> FALSE]
  /\ normal \in UnitNormals
  /\ position \in SurfacePoints
  /\ light_pos \in LightPoints
  /\ intensity = <<>>
  /\ size = SizeZero
  /\ frames_since_last_update = 0
  /\ data = InitialState
  /\ PointerIdle
  /\ PureIdle

\* One call of calculate_light_intensity.
Light ==
  /\ intensity = <<>>
  /\ intensity' = <<calculate_light_intensity(normal, position, light_pos)>>
  /\ UNCHANGED <<normal, position, light_pos>>
  /\ UNCHANGED rasterVars
  /\ UNCHANGED widgetVars
  /\ UNCHANGED pureVars

\* The caller's buffers after the call that shades the sample returned r.
Shaded(r) ==
  /\ pixel_data' = r.pixel_data
  /\ z_buffer' = r.z_buffer
  /\ last' = [visited |-> r.visited, written |-> r.written, panicked |-> r.panicked]

\* One call of draw_triangle that shades the surface point in red.
DrawLit ==
  /\ last.written = {}
  /\ Shaded(Draw(Call(Sample(position, normal), light_pos, Red), Buffers, width, height))
  /\ UNCHANGED <<width, height, calls, snaps>>
  /\ UNCHANGED lightVars
  /\ UNCHANGED pureVars
  /\ UNCHANGED widgetVars

NextLight == Light \/ DrawLit

SpecLight == InitLight /\ [][NextLight]_vars

\* The light direction before it is normalized, and the normal, as whole
\* numbers: twice the difference, and the axis normal itself.
TwiceDir == <<Twice(light_pos[1]) - Twice(position[1]), Twice(light_pos[2]) - Twice(position[2]),
              Twice(light_pos[3]) - Twice(position[3])>>
AxisOf(n) == <<FloorInt(n[1]), FloorInt(n[2]), FloorInt(n[3])>>
IntDot(a, b) == a[1] * b[1] + a[2] * b[2] + a[3] * b[3]

\* Steps is 2^(MantBits + 2); the tolerance is 32 steps, 2^-(MantBits - 3).
Steps == 2 ^ (MantBits + 2)
\* x in steps, for 0 <= x <= 2
InSteps(x) == FloorInt(FMul(x, FromInt(Steps)))

\* The value v (in steps) is within the tolerance of num / sqrt(den2), num > 0.
NearRatio(v, num, den2) ==
  /\ (v - 32 <= 0 \/ (v - 32) * (v - 32) * den2 <= num * num * Steps * Steps)
  /\ (v + 32) * (v + 32) * den2 >= num * num * Steps * Steps

\* The result i is max(dot / |d|, 0.1) for the whole-number dot product dot of
\* an axis normal with the direction d of squared length len2.
IsFlooredCosine(i, dot, len2) ==
  /\ FGe(i, Tenth)
  /\ dot <= 0 => i = Tenth
  /\ (dot > 0 /\ dot * dot * 128 <= len2) => i = Tenth
  /\ (dot > 0 /\ dot * dot * 128 > len2) =>
        (NearRatio(InSteps(i), dot, len2) \/ (i = Tenth /\ dot * dot * 64 <= len2))
  /\ dot * dot = len2 /\ dot > 0 => i = One

C10_LightOnSurface ==
  light_pos = position =>
    /\ intensity # <<>> => intensity[1] = Tenth
    /\ last.written # {} =>
         /\ pixel_data[0] = 25
         /\ pixel_data[1] = 0
         /\ pixel_data[2] = 0
         /\ pixel_data[3] = 255

\* C10 witness: the light was on the surface point, the intensity was
\* computed and the pixel was shaded.
C10_Witness ==
  /\ light_pos = position
  /\ intensity # <<>>
  /\ last.written = {0}
---------------------------------------------------------------------------
(* apply_lighting on its own, and through draw_triangle *)

\* Colours (Color::rgb8 builds opaque ones, Color::rgba8 any) and intensities:
\* inside and outside 0 .. 1, negative, infinite and NaN.
ShadeColors ==
  { <<255, 0, 0, 255>>, <<0, 255, 255, 255>>, <<200, 100, 50, 255>>, <<0, 0, 0, 255>>,
    <<255, 255, 255, 128>>, <<64, 1, 128, 0>> }
ShadeIntensities ==
  { Zero, Canon(1, -2), Half, Canon(3, -2), One, Canon(3, -1), FromInt(2), FromInt(-1),
    Tenth, PInf, NaN }

InitShade ==
  /\ width = 1
  /\ height = 1
  /\ pixel_data = ClearPixels(width, height)
  /\ z_buffer = ClearDepths(width, height)
  /\ calls = <<>>
  /\ snaps = <<>>
  /\ last = [visited |-> {}, written |-> {}, panicked |-> FALSE]
  /\ normal = TowardViewer
  /\ position = NoNormal
  /\ light_pos = LightFront
  /\ intensity \in {<<i>> : i \in ShadeIntensities}
  /\ size = SizeZero
  /\ frames_since_last_update = 0
  /\ data = InitialState
  /\ PointerIdle
  /\ color \in ShadeColors
  /\ shaded = <<>>
  /\ corner = <<>>
  /\ probe = <<>>
  /\ edges = <<>>
  /\ vertices = <<>>
  /\ texel = <<>>
  /\ line = [pc |-> "idle"]

\* One call of apply_lighting.
ApplyLighting ==
  /\ shaded = <<>>
  /\ shaded' = <<apply_lighting(color, intensity[1])>>
  /\ UNCHANGED <<color, corner, probe, edges, line, vertices, texel>>
  /\ UNCHANGED rasterVars
  /\ UNCHANGED lightVars
  /\ UNCHANGED widgetVars

\* One call of draw_triangle with the colour as its base colour: the pixel
\* gets the four bytes of the shaded colour (graphics.rs, lines 88-97).
DrawTinted ==
  /\ last.written = {}
  /\ Shaded(Draw(Call(Sample(position, normal), light_pos, color), Buffers, width, height))
  /\ UNCHANGED <<width, height, calls, snaps>>
  /\ UNCHANGED lightVars
  /\ UNCHANGED widgetVars
  /\ UNCHANGED pureVars

NextShade == ApplyLighting \/ DrawTinted

SpecShade == InitShade /\ [][NextShade]_vars

\* c * i for a channel c and a finite intensity i = m * 2^e, cut to a whole
\* number and clamped to 0 .. 255, in whole-number arithmetic.
CutProduct(cm, e) == IF e >= 0 THEN cm * (2 ^ e) ELSE cm \div (2 ^ (-e))
ClampedProduct(c, i) ==
  IF i.m <= 0 THEN 0
  ELSE IF i.e > 8 THEN (IF c = 0 THEN 0 ELSE 255)
  ELSE SaturateU8(CutProduct(c * i.m, i.e))

\* Each colour channel of the result is the channel times the intensity,
\* clamped to 0 .. 255.
ChannelsScaled ==
  (shaded # <<>> /\ IsFin(intensity[1])) =>
    \A k \in 1 .. 3 : shaded[1][k] = ClampedProduct(color[k], intensity[1])

\* C11: apply_lighting scales the R, G and B channels by the intensity, each
\* clamped to 0 .. 255, and leaves alpha as it was: the result's alpha is the
\* input's alpha, also for a colour that is not opaque, and so is the alpha of
\* a pixel draw_triangle shades with it.
C11_ScaledAlphaKept ==
  /\ ChannelsScaled
  /\ shaded # <<>> => shaded[1][4] = color[4]
  /\ last.written # {} => pixel_data[3] = color[4]
---------------------------------------------------------------------------
(* The edge function and the barycentric weights, on their own and through *)
(* draw_triangle                                                           *)

\* Points in halves: <<a, b>> stands for (a / 2, b / 2).
HalfPoint(a, b) == <<FMul(Half, FromInt(a)), FMul(Half, FromInt(b))>>
\* The corners a triangle takes.  Those of the largest viewport and two
\* inside: between them and the points tested every subtraction and product of
\* the edge function is exact.
ExactCorners ==
  { HalfPoint(0, 0), HalfPoint(2 * MaxWidth, 0), HalfPoint(0, 2 * MaxHeight),
    HalfPoint(2 * MaxWidth, 2 * MaxHeight), HalfPoint(2, 4), HalfPoint(6, 2) }
\* And the corners of a thin triangle across the viewport, from (-3.3125, 6)
\* and (-3.25, 6) to (1.9921875, -0.0625): its products are rounded, by
\* amounts that compare with its area.
ThinCorners ==
  { <<Dy(-53, -4), Dy(3, 1)>>, <<Dy(-13, -2), Dy(3, 1)>>, <<Dy(255, -7), Dy(-1, -4)>> }
Triple(points) == points \X points \X points
\* The points tested: the pixel centres and the whole-number points of the
\* viewport, its border and one half step around it.
HalfProbes ==
  { HalfPoint(a, b) : a \in -1 .. (2 * MaxWidth + 1), b \in -1 .. (2 * MaxHeight + 1) }
\* And points in steps of 1/128 about (1.97, 1.48), next to the diagonal of
\* the viewport: their products with the sides of a triangle are rounded.
FineProbes == { <<Dy(a, -7), Dy(b, -7)>> : a \in 249 .. 255, b \in 185 .. 193 }
ProbePoints == HalfProbes \cup FineProbes

\* The triangle with corners c, flat at depth 1.
CornerVtx(pt) == Vtx(pt[1], pt[2], F(1), TowardViewer)
CornerTri(c) == Tri(CornerVtx(c[1]), CornerVtx(c[2]), CornerVtx(c[3]))

InitEdge ==
  /\ width = MaxWidth
  /\ height = MaxHeight
  /\ pixel_data = ClearPixels(width, height)
  /\ z_buffer = ClearDepths(width, height)
  /\ calls = <<>>
  /\ snaps = <<>>
  /\ last = [visited |-> {}, written |-> {}, panicked |-> FALSE]
  /\ normal = NoNormal
  /\ position = NoNormal
  /\ light_pos = NoNormal
  /\ intensity = <<>>
  /\ size = SizeZero
  /\ frames_since_last_update = 0
  /\ data = InitialState
  /\ PointerIdle
  /\ color = <<0, 0, 0, 0>>
  /\ shaded = <<>>
  /\ corner \in Triple(ExactCorners) \cup Triple(ThinCorners)
  /\ probe = <<>>
  /\ edges = <<>>
  /\ vertices = <<>>
  /\ texel = <<>>
  /\ line = [pc |-> "idle"]

\* What draw_triangle computes for the point p (lines 44 and 53-62): the
\* area, the three edge values, the inside test and the weights.
Evaluated(area, e) == [area |-> area, e |-> e, inside |-> InsideTest(e), w |-> Weights(e, area)]
EvaluatedAt(t, p) == Evaluated(TriangleArea(t.v0, t.v1, t.v2), EdgeValues(t.v0, t.v1, t.v2, p))

\* The edge values of one point.
Evaluate(p) ==
  /\ edges = <<>>
  /\ snaps = <<>>
  /\ probe' = p
  /\ edges' = EvaluatedAt(CornerTri(corner), p)
  /\ UNCHANGED <<color, shaded, corner, line, vertices, texel>>
  /\ UNCHANGED rasterVars
  /\ UNCHANGED lightVars
  /\ UNCHANGED widgetVars

\* One call of draw_triangle for the triangle, on cleared buffers.
DrawCorners ==
  /\ edges = <<>>
  /\ snaps = <<>>
  /\ snaps' = <<Buffers>>
  /\ Shaded(Draw(Call(CornerTri(corner), LightFront, Red), Buffers, width, height))
  /\ UNCHANGED <<width, height, calls>>
  /\ UNCHANGED lightVars
  /\ UNCHANGED widgetVars
  /\ UNCHANGED pureVars

NextEdge ==
  \/ \E p \in ProbePoints : Evaluate(p)
  \/ DrawCorners

SpecEdge == InitEdge /\ [][NextEdge]_vars

\* The three weights add up to 1 within the tolerance (32 steps), added as
\* the interpolation adds its terms.
SumNearOne(w) == Abs(InSteps(FAdd(FAdd(w[1], w[2]), w[3])) - Steps) <= 32
InUnit(x) == FGe(x, Zero) /\ FLe(x, One)
\* The weights draw_triangle computes for pixel (x, y) of triangle t.
WeightsAt(t, x, y) == EvaluatedAt(t, PixelCentre(x, y)).w
CornerArea == TriangleArea(CornerVtx(corner[1]), CornerVtx(corner[2]), CornerVtx(corner[3]))

\* The weights of the point evaluated add up to 1, and lie in 0 .. 1 if the
\* point passes the inside test.
EvaluatedWeightsGood ==
  /\ SumNearOne(edges.w)
  /\ edges.inside => \A k \in 1 .. 3 : InUnit(edges.w[k])
\* So do the weights of every pixel draw_triangle has written.
WrittenWeightsGood ==
  \A o \in last.written :
     /\ SumNearOne(WeightsAt(CornerTri(corner), o % width, o \div width))
     /\ \A k \in 1 .. 3 : InUnit(WeightsAt(CornerTri(corner), o % width, o \div width)[k])

\* C12 as stated: for any triangle whose area is not zero and any pixel
\* centre, the three edge values add up to the area, so the weights add up to
\* 1 (within the tolerance), and the weights of every pixel draw_triangle
\* shades lie in 0 .. 1.
C12_WeightsSumToOne ==
  /\ (edges # <<>> /\ probe \in HalfProbes /\ ~FEq(edges.area, Zero)) => EvaluatedWeightsGood
  /\ (snaps # <<>> /\ ~FEq(CornerArea, Zero)) => WrittenWeightsGood

\* The same for a triangle and a point between which the edge function
\* computes exactly: there the three edge values add up to the area exactly
\* and the weights are good.  What fails above is the thin triangle, whose
\* rounding errors compare with its area.
C12_WeightsSumToOneIfExact ==
  corner \in Triple(ExactCorners) =>
    /\ (edges # <<>> /\ probe \in HalfProbes /\ ~FEq(edges.area, Zero)) =>
         /\ FAdd(FAdd(edges.e[1], edges.e[2]), edges.e[3]) = edges.area
         /\ EvaluatedWeightsGood
    /\ (snaps # <<>> /\ ~FEq(CornerArea, Zero)) => WrittenWeightsGood

\* A pixel centre inside a triangle of exact corners, away from
\* its edges: each weight lies strictly between 0 and 1.
C12_Witness ==
  /\ corner \in Triple(ExactCorners)
  /\ edges # <<>>
  /\ edges.inside
  /\ \A k \in 1 .. 3 : FLt(Zero, edges.w[k]) /\ FLt(edges.w[k], One)
  /\ probe = PixelCentre(1, 0)

\* Whole-number geometry, independent of the edge function: a point in units
\* of 2^-MantBits, and the area of a triangle of such points (twice it, in
\* those units) by the shoelace formula.
Grain == 2 ^ MantBits
Scaled(pt) == <<FloorInt(FMul(pt[1], FromInt(Grain))), FloorInt(FMul(pt[2], FromInt(Grain)))>>
Shoelace(a, b, c) == Abs(a[1] * (b[2] - c[2]) + b[1] * (c[2] - a[2]) + c[1] * (a[2] - b[2]))
\* p is strictly inside the triangle a, b, c: the three triangles p makes with
\* its sides have an area each and fill it.  p is outside: they exceed it.
FillsExactly(whole, s1, s2, s3) == s1 > 0 /\ s2 > 0 /\ s3 > 0 /\ s1 + s2 + s3 = whole
StrictlyInside(a, b, c, p) ==
  FillsExactly(Shoelace(a, b, c), Shoelace(p, b, c), Shoelace(a, p, c), Shoelace(a, b, p))
Outside(a, b, c, p) ==
  Shoelace(p, b, c) + Shoelace(a, p, c) + Shoelace(a, b, p) > Shoelace(a, b, c)

SameSign(x, area) == (FLt(Zero, x) /\ FLt(Zero, area)) \/ (FLt(x, Zero) /\ FLt(area, Zero))
OppositeSign(x, area) == (FLt(Zero, x) /\ FLt(area, Zero)) \/ (FLt(x, Zero) /\ FLt(Zero, area))

\* The claim for the triangle a, b, c and the point p, in whole numbers.
SignsTellInside(a, b, c, p) ==
  /\ StrictlyInside(a, b, c, p) => \A k \in 1 .. 3 : SameSign(edges.e[k], edges.area)
  /\ Outside(a, b, c, p) => \E k \in 1 .. 3 : OppositeSign(edges.e[k], edges.area)
\* The corners are not on one line.
CornersSpread == Shoelace(Scaled(corner[1]), Scaled(corner[2]), Scaled(corner[3])) # 0
ProbeStrictlyInside ==
  StrictlyInside(Scaled(corner[1]), Scaled(corner[2]), Scaled(corner[3]), Scaled(probe))

\* C13 as stated: for any triangle A, B, C whose area is not zero and any
\* point P: if P is strictly inside, edge(B, C, P), edge(C, A, P) and
\* edge(A, B, P) all have the sign of edge(A, B, C); if P is outside, at least
\* one has the opposite sign.
C13_SignsTellInside ==
  (edges # <<>> /\ CornersSpread) =>
    SignsTellInside(Scaled(corner[1]), Scaled(corner[2]), Scaled(corner[3]), Scaled(probe))

\* C13 as amended: the same for a triangle and a point between which the
\* edge function computes exactly.
C13_SignsTellInsideIfExact ==
  (edges # <<>> /\ CornersSpread /\ corner \in Triple(ExactCorners) /\ probe \in HalfProbes) =>
    SignsTellInside(Scaled(corner[1]), Scaled(corner[2]), Scaled(corner[3]), Scaled(probe))

\* C13 witness: a point strictly inside a triangle of exact corners and of
\* negative area.
C13_Witness ==
  /\ edges # <<>>
  /\ corner \in Triple(ExactCorners)
  /\ probe \in HalfProbes
  /\ FLt(edges.area, Zero)
  /\ ProbeStrictlyInside
---------------------------------------------------------------------------
(* draw_line step by step: one call, one action for each turn of its loop *)

\* isize in the model: IsizeBits bits, two's complement.  A build checks its
\* arithmetic for overflow and panics (debug) or wraps (release).
IsizeBits == 5
IsizeMax == 2 ^ (IsizeBits - 1) - 1
IsizeMin == -(2 ^ (IsizeBits - 1))
Fits(n) == n >= IsizeMin /\ n <= IsizeMax
Wrap(n) == ((n - IsizeMin) % (2 ^ IsizeBits)) + IsizeMin
Saturate(n) == IF n > IsizeMax THEN IsizeMax ELSE IF n < IsizeMin THEN IsizeMin ELSE n
\* Lines 116-119: `x.round() as isize` at this width.
AsIsize(x) == Saturate(RoundAsIsize(x))

\* Lines 121-122: dx = (x1 - x0).abs() and dy = -(y1 - y0).abs().
DeltaX(x0, x1) == Wrap(Abs(Wrap(x1 - x0)))
DeltaY(y0, y1) == Wrap(-Wrap(Abs(Wrap(y1 - y0))))
\* Lines 121-125: an operation of the set-up overflows.
SetupOverflows(x0, y0, x1, y1) ==
  \/ ~Fits(x1 - x0)
  \/ ~Fits(Abs(Wrap(x1 - x0)))
  \/ ~Fits(y1 - y0)
  \/ ~Fits(Abs(Wrap(y1 - y0)))
  \/ ~Fits(DeltaX(x0, x1) + DeltaY(y0, y1))
\* Lines 116-125: the locals at the head of the loop for the arguments a and
\* the colour c, in a build that checks overflow or not.
LineLocalsRightward(x0, y0, x1, y1, c, checks) ==
  [pc |-> IF checks /\ SetupOverflows(x0, y0, x1, y1) THEN "panicked" ELSE "loop",
   checks |-> checks, wrapped |-> SetupOverflows(x0, y0, x1, y1),
   x0 |-> x0, y0 |-> y0, x1 |-> x1, y1 |-> y1,
   dx |-> DeltaX(x0, x1), dy |-> DeltaY(y0, y1),
   sx |-> 1, sy |-> IF y0 < y1 THEN 1 ELSE -1,
   err |-> Wrap(DeltaX(x0, x1) + DeltaY(y0, y1)), color |-> c]
LineLocals(x0, y0, x1, y1, c, checks) ==
  [pc |-> IF checks /\ SetupOverflows(x0, y0, x1, y1) THEN "panicked" ELSE "loop",
   checks |-> checks, wrapped |-> SetupOverflows(x0, y0, x1, y1),
   x0 |-> x0, y0 |-> y0, x1 |-> x1, y1 |-> y1,
   dx |-> DeltaX(x0, x1), dy |-> DeltaY(y0, y1),
   sx |-> IF x0 < x1 THEN 1 ELSE -1, sy |-> IF y0 < y1 THEN 1 ELSE -1,
   err |-> Wrap(DeltaX(x0, x1) + DeltaY(y0, y1)), color |-> c]

\* Line 127: the point is in the buffer.
InBufferLoose(x, y, w, h) == x >= 0 /\ x <= w /\ y >= 0 /\ y < h
InBuffer(x, y, w, h) == x >= 0 /\ x < w /\ y >= 0 /\ y < h
\* Lines 128-133: the four bytes at offset set to the colour c.
SetRGBA(pixels, offset, c) ==
  [i \in DOMAIN pixels |-> IF i \in offset .. (offset + 3) THEN c[i - offset + 1] ELSE pixels[i]]

\* Lines 140-148: the locals after the step, e2 being 2 * err and err1 the
\* error value after the first test.
StepOverflows(l, e2, err1) ==
  \/ ~Fits(2 * l.err)
  \/ e2 >= l.dy /\ (~Fits(l.err + l.dy) \/ ~Fits(l.x0 + l.sx))
  \/ e2 <= l.dx /\ (~Fits(err1 + l.dx) \/ ~Fits(l.y0 + l.sy))
Stepped(l, e2, err1) ==
  [l EXCEPT !.pc = IF l.checks /\ StepOverflows(l, e2, err1) THEN "panicked" ELSE "loop",
            !.wrapped = l.wrapped \/ StepOverflows(l, e2, err1),
            !.x0 = IF e2 >= l.dy THEN Wrap(l.x0 + l.sx) ELSE l.x0,
            !.y0 = IF e2 <= l.dx THEN Wrap(l.y0 + l.sy) ELSE l.y0,
            !.err = IF e2 <= l.dx THEN Wrap(err1 + l.dx) ELSE err1]
StepFrom(l, e2) == Stepped(l, e2, IF e2 >= l.dy THEN Wrap(l.err + l.dy) ELSE l.err)
\* Lines 137-139: the loop is left at the end point.
AfterPlotEitherAxis(l) ==
  IF l.x0 = l.x1 \/ l.y0 = l.y1 THEN [l EXCEPT !.pc = "done"] ELSE StepFrom(l, Wrap(2 * l.err))
AfterPlot(l) ==
  IF l.x0 = l.x1 /\ l.y0 = l.y1 THEN [l EXCEPT !.pc = "done"] ELSE StepFrom(l, Wrap(2 * l.err))

\* The coordinates a caller passes: off the buffer on either side, in it, at
\* the ends of isize, not a number.
LineXs == {NInf, F(-1), Half, Dy(5, -1), F(MaxWidth), PInf, NaN}
LineYs == {F(-1), Dy(3, -1), F(MaxHeight), PInf}
\* The buffers a caller passes, with the colour of the line: cleared, or
\* holding an earlier line from corner to corner.
Translucent == <<10, 20, 30, 40>>
Crossed(w, h) == draw_line(Zero, Zero, F(w - 1), F(h - 1), ClearPixels(w, h), w, h, White)
LineCanvases(w, h) ==
  {[pixels |-> ClearPixels(w, h), color |-> White],
   [pixels |-> Crossed(w, h), color |-> Translucent]}
LineSizes == {<<MaxWidth, MaxHeight>>, <<0, 0>>}

InitLine ==
  /\ \E s \in LineSizes :
       /\ width = s[1]
       /\ height = s[2]
       /\ \E canvas \in LineCanvases(s[1], s[2]) :
            /\ pixel_data = canvas.pixels
            /\ \E fx0 \in LineXs, fy0 \in LineYs, fx1 \in LineXs, fy1 \in LineYs :
               \E checks \in BOOLEAN :
                  /\ probe = << <<fx0, fy0>>, <<fx1, fy1>> >>
                  /\ line = [pc |-> "call", checks |-> checks, color |-> canvas.color]
  /\ z_buffer = ClearDepths(width, height)
  /\ calls = <<>>
  /\ snaps = <<>>
  /\ last = [visited |-> {}, written |-> {}, panicked |-> FALSE]
  /\ normal = NoNormal
  /\ position = NoNormal
  /\ light_pos = NoNormal
  /\ intensity = <<>>
  /\ size = SizeZero
  /\ frames_since_last_update = 0
  /\ data = InitialState
  /\ PointerIdle
  /\ color = <<0, 0, 0, 0>>
  /\ shaded = <<>>
  /\ corner = <<>>
  /\ edges = <<>>
  /\ vertices = <<>>
  /\ texel = <<>>

\* Lines 105-125: the call rounds its arguments, the two points in probe, and
\* sets up the loop.  The buffer as it was handed over is kept in snaps.
LineEnter ==
  /\ line.pc = "call"
  /\ line' = LineLocals(AsIsize(probe[1][1]), AsIsize(probe[1][2]),
                        AsIsize(probe[2][1]), AsIsize(probe[2][2]), line.color, line.checks)
  /\ snaps' = <<Buffers>>
  /\ UNCHANGED <<width, height, pixel_data, z_buffer, calls, last>>
  /\ UNCHANGED <<color, shaded, corner, probe, edges, vertices, texel>>
  /\ UNCHANGED lightVars
  /\ UNCHANGED widgetVars

\* Lines 127-134: the point is plotted if it is in the buffer; an index out
\* of the slice would panic.  last.visited holds the points the loop has been
\* at, last.written the pixels it has set.
PlotAt(offset) ==
  IF offset + 3 \in DOMAIN pixel_data
  THEN /\ pixel_data' = SetRGBA(pixel_data, offset, line.color)
       /\ last' = [last EXCEPT !.written = @ \cup {offset \div 4},
                               !.visited = @ \cup {<<line.x0, line.y0>>}]
  ELSE /\ pixel_data' = pixel_data
       /\ last' = [last EXCEPT !.panicked = TRUE, !.visited = @ \cup {<<line.x0, line.y0>>}]
\* Lines 126-148: one turn of the loop.
LineIterate ==
  /\ line.pc = "loop"
  /\ ~last.panicked
  /\ IF InBuffer(line.x0, line.y0, width, height)
     THEN PlotAt((line.y0 * width + line.x0) * 4)
     ELSE /\ pixel_data' = pixel_data
          /\ last' = [last EXCEPT !.visited = @ \cup {<<line.x0, line.y0>>}]
  /\ line' = AfterPlot(line)
  /\ UNCHANGED <<width, height, z_buffer, calls, snaps>>
  /\ UNCHANGED <<color, shaded, corner, probe, edges, vertices, texel>>
  /\ UNCHANGED lightVars
  /\ UNCHANGED widgetVars

NextLine == LineEnter \/ LineIterate

SpecLine == InitLine /\ [][NextLine]_vars
\* The call runs on: nothing holds it up between its steps.
SpecLineFair == SpecLine /\ WF_vars(LineEnter) /\ WF_vars(LineIterate)

\* The rounded end point of the call.
LineEnd == <<AsIsize(probe[2][1]), AsIsize(probe[2][2])>>
AtLineEnd == line.x0 = LineEnd[1] /\ line.y0 = LineEnd[2]
\* The loop is left at the end point only.
ExitsAtEnd == line.pc = "done" => AtLineEnd
\* A point off the buffer is passed without a write, and the loop goes on.
SkipsOutside ==
  (line.pc = "loop" /\ ~InBuffer(line.x0, line.y0, width, height) /\ ~AtLineEnd) =>
     /\ pixel_data' = pixel_data
     /\ line'.pc = "loop"

NearEnds(x0, y0, x1, y1) == 3 * Abs(x1 - x0) <= IsizeMax /\ 3 * Abs(y1 - y0) <= IsizeMax
LineIsNear ==
  probe # <<>> /\
  NearEnds(AsIsize(probe[1][1]), AsIsize(probe[1][2]), AsIsize(probe[2][1]), AsIsize(probe[2][2]))
LineIsPath ==
  (line.pc = "done" /\ LineIsNear) =>
    pixel_data = draw_line(probe[1][1], probe[1][2], probe[2][1], probe[2][2],
                           snaps[1].pixel_data, width, height, line.color)

\* Pixel o of the buffer px, as four bytes.
BytesAt(px, o) == <<px[4 * o], px[4 * o + 1], px[4 * o + 2], px[4 * o + 3]>>
\* C15: draw_line writes in the buffer only and the given colour only: for
\* any end points and any width and height every pixel written has
\* 0 <= x < width and 0 <= y < height, it holds the four bytes of the line's
\* colour, every other pixel holds what it held before the call, and no index
\* is out of range; where the end points are near, the pixels written are
\* those of the line.
C15_LineWritesInsideOnly ==
  line.pc \in {"loop", "done", "panicked"} =>
    /\ LineIsPath
    /\ ~last.panicked
    /\ DOMAIN pixel_data = DOMAIN snaps[1].pixel_data
    /\ last.written \subseteq 0 .. (width * height - 1)
    /\ \A o \in 0 .. (width * height - 1) :
          BytesAt(pixel_data, o) =
            IF o \in last.written THEN line.color ELSE BytesAt(snaps[1].pixel_data, o)

\* C15 witness: a line from off the buffer on one side to off it on the
\* other is done, and has written over the earlier line and beside it.
C15_Witness ==
  /\ line.pc = "done"
  /\ width = MaxWidth
  /\ line.color = Translucent
  /\ probe = << <<F(-1), Dy(3, -1)>>, <<F(MaxWidth), Dy(3, -1)>> >>
  /\ Cardinality(last.written) = MaxWidth
  /\ \E o \in last.written : BytesAt(snaps[1].pixel_data, o) = White
  /\ \E o \in last.written : BytesAt(snaps[1].pixel_data, o) = <<0, 0, 0, 0>>
---------------------------------------------------------------------------
(* src/src/widget.rs: compute_projected_vertices and paint *)

\* The cube; vertices, faces and edges carry the source's indices 0 .. 7.
CubeCorners ==
  << <<-1, -1, -1>>, <<1, -1, -1>>, <<1, 1, -1>>, <<-1, 1, -1>>,
     <<-1, -1, 1>>, <<1, -1, 1>>, <<1, 1, 1>>, <<-1, 1, 1>> >>
CubeVertex(i) ==
  <<FromInt(CubeCorners[i + 1][1]), FromInt(CubeCorners[i + 1][2]), FromInt(CubeCorners[i + 1][3])>>
Faces ==
  << <<0, 1, 2, 3>>, <<5, 4, 7, 6>>, <<4, 0, 3, 7>>, <<1, 5, 6, 2>>, <<4, 5, 1, 0>>,
     <<3, 2, 6, 7>> >>
Edges ==
  << <<0, 1>>, <<1, 2>>, <<2, 3>>, <<3, 0>>, <<4, 5>>, <<5, 6>>, <<6, 7>>, <<7, 4>>,
     <<0, 4>>, <<1, 5>>, <<2, 6>>, <<3, 7>> >>
\* Red, green, blue, yellow, magenta, cyan.
FaceColors ==
  << <<255, 0, 0, 255>>, <<0, 255, 0, 255>>, <<0, 0, 255, 255>>, <<255, 255, 0, 255>>,
     <<255, 0, 255, 255>>, <<0, 255, 255, 255>> >>

\* f64::sin_cos, <<sin, cos>>, at the precision of the number model: the
\* angle in steps of 2^-FixBits, brought into a quarter turn, the two power
\* series in whole numbers, the sums rounded as every result is.  An angle
\* below 1/16 is its own sine.
FixBits == 14
FixOne == 2 ^ FixBits
HalfPiFix == 25736
ToFixed(x) ==
  IF x.e + FixBits >= 0 THEN x.m * 2 ^ (x.e + FixBits)
  ELSE IF -(x.e + FixBits) > 30 THEN 0
  ELSE (x.m + 2 ^ (-(x.e + FixBits) - 1)) \div 2 ^ (-(x.e + FixBits))
Squared(t) == (t * t) \div FixOne
Horner(t2, inner, n) == FixOne - (t2 * inner) \div (n * FixOne)
SinFix(t, t2) ==
  (t * Horner(t2, Horner(t2, Horner(t2, Horner(t2, FixOne, 72), 42), 20), 6)) \div FixOne
CosFix(t2) == Horner(t2, Horner(t2, Horner(t2, Horner(t2, FixOne, 56), 30), 12), 2)
QuarterSin(q, s, c) == CASE q = 0 -> s [] q = 1 -> c [] q = 2 -> -s [] OTHER -> -c
QuarterCos(q, s, c) == CASE q = 0 -> c [] q = 1 -> -s [] q = 2 -> -c [] OTHER -> s
SinCosFix(sign, q, s, c) ==
  <<RoundInt(sign * QuarterSin(q, s, c), -FixBits), RoundInt(QuarterCos(q, s, c), -FixBits)>>
SinCosQuarter(sign, q, t) == SinCosFix(sign, q, SinFix(t, Squared(t)), CosFix(Squared(t)))
SinCosTurned(sign, r) == SinCosQuarter(sign, r \div HalfPiFix, r % HalfPiFix)
SinCosOf(angle, fixed) ==
  IF Abs(fixed) < FixOne \div 16 THEN <<angle, RoundInt(CosFix(Squared(Abs(fixed))), -FixBits)>>
  ELSE SinCosTurned(Sgn(fixed), Abs(fixed) % (4 * HalfPiFix))
SinCos(angle) == IF IsFin(angle) THEN SinCosOf(angle, ToFixed(angle)) ELSE <<NaN, NaN>>
\* An angle of the model's frames: 165/256 radians.
Slanted == Canon(165, -8)

rotation_x(sc) == << <<One, Zero, Zero>>, <<Zero, sc[2], FNeg(sc[1])>>, <<Zero, sc[1], sc[2]>> >>
rotation_y(sc) == << <<sc[2], Zero, sc[1]>>, <<Zero, One, Zero>>, <<FNeg(sc[1]), Zero, sc[2]>> >>
rotation_matrix(d) ==
  multiply_matrices(rotation_y(SinCos(d.angle_y)), rotation_x(SinCos(d.angle_x)))

Center(sz) == <<FDiv(sz.width, FromInt(2)), FDiv(sz.height, FromInt(2))>>
Scale(sz, d) == FMul(FDiv(FMin(sz.height, sz.width), FromInt(4)), d.zoom)

\* A rotated vertex with the translation applied.
Translated(rotated, translation, scale) ==
  <<FAdd(rotated[1], FDiv(translation[1], scale)),
    FAdd(rotated[2], FDiv(translation[2], scale)),
    rotated[3]>>
transformed_vertices(rot, translation, scale) ==
  [i \in 0 .. 7 |-> Translated(multiply_matrix_vector(rot, CubeVertex(i)), translation, scale)]

\* The normal of each face added to its four vertices, face after face.
Add3(a, b) == <<FAdd(a[1], b[1]), FAdd(a[2], b[2]), FAdd(a[3], b[3])>>
AddNormalToThree(acc, face, n) ==
  [i \in 0 .. 7 |->
     IF i \in {face[1], face[2], face[3]} THEN Add3(acc[i], n) ELSE acc[i]]
AddNormal(acc, face, n) ==
  [i \in 0 .. 7 |->
     IF i \in {face[1], face[2], face[3], face[4]} THEN Add3(acc[i], n) ELSE acc[i]]
FaceNormal(tv, face) == calculate_normal(tv[face[1]], tv[face[2]], tv[face[3]])
RECURSIVE SumNormals(_, _, _)
SumNormals(tv, acc, k) ==
  IF k > Len(Faces) THEN acc
  ELSE SumNormals(tv, AddNormal(acc, Faces[k], FaceNormal(tv, Faces[k])), k + 1)
NormalizeAll(acc) == [i \in 0 .. 7 |-> Normalized(acc[i])]
vertex_normals(tv) == NormalizeAll(SumNormals(tv, [i \in 0 .. 7 |-> <<Zero, Zero, Zero>>], 1))

\* The vertices with their normals and screen positions.
vertices_with_normals(tv, vn, scale, center) ==
  [i \in 0 .. 7 |->
     [position |-> tv[i],
      screen_position |-> <<FAdd(FMul(tv[i][1], scale), center[1]),
                            FAdd(FMul(tv[i][2], scale), center[2])>>,
      normal |-> vn[i]]]
Projected(tv, scale, center) == vertices_with_normals(tv, vertex_normals(tv), scale, center)
ProjectedAt(d, scale, center) ==
  Projected(transformed_vertices(rotation_matrix(d), d.translation, scale), scale, center)

\* compute_projected_vertices for the widget size sz and the state d.
compute_projected_vertices(sz, d) == ProjectedAt(d, Scale(sz, d), Center(sz))

\* The frame b after a call of a primitive that left the buffers r: the call
\* is added to the calls of the frame.
Traced(r, b, call) ==
  [pixel_data |-> r.pixel_data, z_buffer |-> r.z_buffer, visited |-> r.visited,
   written |-> r.written, panicked |-> r.panicked,
   start |-> b.start, trace |-> Append(b.trace, call)]
\* A call of draw_triangle for the vertices i0, i1, i2 of face k, and one of
\* draw_line for the edge from start to end.
TriangleCall(k, i0, i1, i2) ==
  [fn |-> "draw_triangle", at |-> <<i0, i1, i2>>, face |-> k, color |-> FaceColors[k]]
LineCall(k, start, end) ==
  [fn |-> "draw_line", at |-> <<start, end>>, face |-> k, color |-> White]

\* One triangle of face k, unless an earlier call panicked.
FaceTriangle(vs, b, w, h, light, k, i0, i1, i2) ==
  IF b.panicked THEN b
  ELSE Traced(draw_triangle(vs[i0], vs[i1], vs[i2], b.pixel_data, b.z_buffer, w, h, light,
                            FaceColors[k]),
              b, TriangleCall(k, i0, i1, i2))
\* The two triangles (a, b, c) and (a, c, d) of face k.
DrawFaceFanSlip(vs, b, w, h, light, k) ==
  FaceTriangle(vs,
               FaceTriangle(vs, b, w, h, light, k, Faces[k][1], Faces[k][2], Faces[k][3]),
               w, h, light, k, Faces[k][1], Faces[k][2], Faces[k][4])
DrawFace(vs, b, w, h, light, k) ==
  FaceTriangle(vs,
               FaceTriangle(vs, b, w, h, light, k, Faces[k][1], Faces[k][2], Faces[k][3]),
               w, h, light, k, Faces[k][1], Faces[k][3], Faces[k][4])
RECURSIVE DrawFaces(_, _, _, _, _, _)
DrawFaces(vs, b, w, h, light, k) ==
  IF k > Len(Faces) THEN b
  ELSE DrawFaces(vs, DrawFace(vs, b, w, h, light, k), w, h, light, k + 1)

\* The twelve edges as white lines.
DrawEdge(vs, pixels, w, h, start, end) ==
  draw_line(vs[start].screen_position[1], vs[start].screen_position[2],
            vs[end].screen_position[1], vs[end].screen_position[2], pixels, w, h, White)
\* Edge k drawn into the frame b.
EdgeLine(vs, b, w, h, k) ==
  [b EXCEPT !.pixel_data = DrawEdge(vs, b.pixel_data, w, h, Edges[k][1], Edges[k][2]),
            !.trace = Append(b.trace, LineCall(k, Edges[k][1], Edges[k][2]))]
RECURSIVE DrawEdges(_, _, _, _, _)
DrawEdges(vs, b, w, h, k) ==
  IF k > Len(Edges) THEN b
  ELSE DrawEdges(vs, EdgeLine(vs, b, w, h, k), w, h, k + 1)
\* Lines 344-345: fresh buffers for a frame; start keeps them as allocated,
\* trace the calls of draw_triangle and draw_line made since.
Allocated(pixels, depths) ==
  [pixel_data |-> pixels, z_buffer |-> depths, visited |-> {}, written |-> {},
   panicked |-> FALSE, start |-> [pixel_data |-> pixels, z_buffer |-> depths], trace |-> <<>>]
KeptBuffers(w, h) ==
  IF width = w /\ height = h THEN Allocated(pixel_data, z_buffer)
  ELSE Allocated(ClearPixels(w, h), ClearDepths(w, h))
FreshBuffers(w, h) == Allocated(ClearPixels(w, h), ClearDepths(w, h))

\* Lines 389-433: the edges in wireframe mode, the faces otherwise.
PaintIntoFacesAlways(vs, b, w, h, d) == DrawFaces(vs, b, w, h, d.light_position, 1)
PaintInto(vs, b, w, h, d) ==
  IF d.wireframe THEN DrawEdges(vs, b, w, h, 1)
  ELSE DrawFaces(vs, b, w, h, d.light_position, 1)
PaintSized(sz, d, w, h) ==
  PaintInto(compute_projected_vertices(sz, d), FreshBuffers(w, h), w, h, d)

\* paint: the buffers of the frame for the widget size sz and the state d.
\* The texts and the overlay that follow go to the render context, not into
\* the buffers.
paint(sz, d) == PaintSized(sz, d, AsUsize(sz.width), AsUsize(sz.height))

---------------------------------------------------------------------------
(* The widget: it is given a size and paints frames *)

\* Largest side of a viewport of the model, and most frames counted.
MaxSide == 12
MaxFrames == 2

SizeOf(w, h) == [width |-> FromInt(w), height |-> FromInt(h)]
\* The viewport of the scenario and one of other proportions, at the model's
\* scale; a small one; none.
Sizes == {SizeZero, SizeOf(5, 5), SizeOf(MaxSide, MaxSide), SizeOf(MaxSide, 8)}

\* States the events lead to: turned about one axis or both, wireframe,
\* dragged, zoomed in.
States ==
  { InitialState,
    [InitialState EXCEPT !.wireframe = TRUE],
    [InitialState EXCEPT !.angle_x = Slanted],
    [InitialState EXCEPT !.angle_x = Slanted, !.angle_y = Slanted],
    [InitialState EXCEPT !.angle_y = Slanted, !.wireframe = TRUE],
    [InitialState EXCEPT !.translation = <<FromInt(3), FromInt(-2)>>],
    [InitialState EXCEPT !.zoom = FromInt(2), !.angle_y = Slanted] }

InitFrame ==
  /\ width = 0
  /\ height = 0
  /\ pixel_data = ClearPixels(0, 0)
  /\ z_buffer = ClearDepths(0, 0)
  /\ calls = <<>>
  /\ snaps = <<>>
  /\ last = [visited |-> {}, written |-> {}, panicked |-> FALSE]
  /\ normal = NoNormal
  /\ position = NoNormal
  /\ light_pos = NoNormal
  /\ intensity = <<>>
  /\ size = SizeZero
  /\ frames_since_last_update = 0
  /\ data \in States
  /\ PointerIdle
  /\ PureIdle

\* layout (lines 315-325): the widget takes the largest size allowed.
Layout(sz) ==
  /\ size' = sz
  /\ UNCHANGED <<frames_since_last_update, data>>
  /\ UNCHANGED pointerVars
  /\ UNCHANGED rasterVars
  /\ UNCHANGED lightVars
  /\ UNCHANGED pureVars

\* lifecycle (lines 299-309): a Size event sets the size.
LifeCycleSize(sz) ==
  /\ size' = sz
  /\ UNCHANGED <<frames_since_last_update, data>>
  /\ UNCHANGED pointerVars
  /\ UNCHANGED rasterVars
  /\ UNCHANGED lightVars
  /\ UNCHANGED pureVars

\* The frame's buffers r replace those of the frame before; calls holds the
\* calls of draw_triangle and draw_line the frame made, snaps the buffers it
\* began with, last.drawn the application state it was drawn from.
Presented(r, w, h) ==
  /\ width' = w
  /\ height' = h
  /\ pixel_data' = r.pixel_data
  /\ z_buffer' = r.z_buffer
  /\ last' = [visited |-> {}, written |-> {}, panicked |-> r.panicked, drawn |-> data]
  /\ calls' = r.trace
  /\ snaps' = <<r.start>>

\* paint (lines 328-543): the frame is counted, the count starting again
\* when a second has passed on the clock, and the frame is drawn.
PaintFrame ==
  /\ frames_since_last_update < MaxFrames
  /\ ~last.panicked
  /\ Presented(paint(size, data), AsUsize(size.width), AsUsize(size.height))
  /\ \E second_passed \in BOOLEAN :
        frames_since_last_update' = IF second_passed THEN 0 ELSE frames_since_last_update + 1
  /\ UNCHANGED <<size, data>>
  /\ UNCHANGED lightVars
  /\ UNCHANGED pureVars
Paint ==
  /\ PaintFrame
  /\ UNCHANGED pointerVars

NextFrame ==
  \/ \E sz \in Sizes : Layout(sz)
  \/ \E sz \in Sizes : LifeCycleSize(sz)
  \/ Paint

SpecFrame == InitFrame /\ [][NextFrame]_vars

---------------------------------------------------------------------------
(* src/src/widget.rs: event, the handler of timer, keyboard and mouse events *)

\* Most events of the user and frames, and most timer events, handled in one
\* behaviour, and the side of the viewport the events are handled in.
MaxEvents == 3
MaxTicks == 1
EventSide == 4

\* The literals 0.01, 0.02 and 0.001 of the handler.
Hundredth == FDiv(One, F(100))
Fiftieth == FDiv(One, F(50))
Thousandth == FDiv(One, F(1000))

\* The state after 314 ticks of the timer: angle_x is 3.14 and angle_y 6.28,
\* the last values below pi and 2 pi.
Turned == [InitialState EXCEPT !.angle_x = FDiv(F(314), F(100)), !.angle_y = FDiv(F(628), F(100))]

\* The keys the handler tells apart, the mouse buttons, the positions of the
\* pointer (the centre of the viewport, a point of the cube's upper right
\* part, the centre of the corner pixel) and the wheel's movements.
Keys == {"d", "p", "q", "w", "r"}
Buttons == {"Left", "Right", "Middle"}
MousePoints == {<<F(2), F(2)>>, <<Dy(5, -1), Dy(3, -1)>>, <<Half, Half>>}
WheelDeltas == {F(120), F(-2000), F(100000)}

\* point_in_triangle of crate::math: p is in the triangle a, b, c when the
\* edge function has no two values of opposite sign for its three edges.
point_in_triangle(p, a, b, c) ==
  ~( /\ \E e \in {edge_function(a, b, p), edge_function(b, c, p), edge_function(c, a, p)} :
          FLt(e, Zero)
     /\ \E e \in {edge_function(a, b, p), edge_function(b, c, p), edge_function(c, a, p)} :
          FLt(Zero, e) )

\* lines 200-237: the click is inside the cube when it is in one of the two
\* triangles (a, b, c), (a, c, d) of one of the faces.
ClickedInsideCube(vs, click_point) ==
  \E k \in 1 .. Len(Faces) :
    \/ point_in_triangle(click_point, vs[Faces[k][1]].screen_position,
                         vs[Faces[k][2]].screen_position, vs[Faces[k][3]].screen_position)
    \/ point_in_triangle(click_point, vs[Faces[k][1]].screen_position,
                         vs[Faces[k][3]].screen_position, vs[Faces[k][4]].screen_position)

\* f64::clamp(0.1, 10.0): NaN stays NaN.
Clamp(x, lo, hi) == IF IsNaN(x) THEN x ELSE IF FLt(x, lo) THEN lo ELSE IF FLt(hi, x) THEN hi ELSE x

\* What an event leaves alone besides the application state, the widget's
\* drag flags and mouse position and the event context: the size, the frame
\* count, the buffers.  Events reach a connected window until it quits.
Delivered ==
  /\ ctx.connected
  /\ ~ctx.quit
  /\ UNCHANGED <<size, frames_since_last_update>>
  /\ UNCHANGED rasterVars
  /\ UNCHANGED lightVars
  /\ UNCHANGED pureVars
\* An event of the user: at most MaxEvents of them, and frames, are handled.
Handled ==
  /\ Delivered
  /\ events < MaxEvents
  /\ events' = events + 1
\* ctx.request_paint() if asked is true.
RequestPaint(c, asked) == [c EXCEPT !.paint_requested = @ \/ asked]

\* WindowConnected (lines 138-142): a timer and the focus are requested.
WindowConnectedNoTimer ==
  /\ ~ctx.connected
  /\ ctx' = [ctx EXCEPT !.connected = TRUE]
  /\ UNCHANGED <<size, frames_since_last_update, data>>
  /\ UNCHANGED <<dragging_rotation, dragging_translation, last_mouse_pos, events>>
  /\ UNCHANGED rasterVars
  /\ UNCHANGED lightVars
  /\ UNCHANGED pureVars
WindowConnected ==
  /\ ~ctx.connected
  /\ ctx' = [ctx EXCEPT !.connected = TRUE, !.timers = @ + 1]
  /\ UNCHANGED <<size, frames_since_last_update, data>>
  /\ UNCHANGED <<dragging_rotation, dragging_translation, last_mouse_pos, events>>
  /\ UNCHANGED rasterVars
  /\ UNCHANGED lightVars
  /\ UNCHANGED pureVars

\* Timer (lines 143-150): a pending timer fires; unless paused or dragging,
\* the cube turns on and a paint is requested; the next timer is requested.
Animating == ~data.paused /\ ~dragging_rotation /\ ~dragging_translation
TimerAlways ==
  /\ Delivered
  /\ ctx.timers > 0
  /\ ctx.ticks < MaxTicks
  /\ data' = [data EXCEPT !.angle_x = FAdd(@, Hundredth), !.angle_y = FAdd(@, Fiftieth)]
  /\ ctx' = [RequestPaint(ctx, TRUE) EXCEPT !.timers = @ - 1 + 1, !.ticks = @ + 1]
  /\ UNCHANGED <<dragging_rotation, dragging_translation, last_mouse_pos, events>>
Timer ==
  /\ Delivered
  /\ ctx.timers > 0
  /\ ctx.ticks < MaxTicks
  /\ data' = IF Animating
             THEN [data EXCEPT !.angle_x = FAdd(@, Hundredth), !.angle_y = FAdd(@, Fiftieth)]
             ELSE data
  /\ ctx' = [RequestPaint(ctx, Animating) EXCEPT !.timers = @ - 1 + 1, !.ticks = @ + 1]
  /\ UNCHANGED <<dragging_rotation, dragging_translation, last_mouse_pos, events>>

\* KeyDown (lines 151-190), the state after each key.
KeyPressed(d, key) ==
  CASE key = "d" -> [d EXCEPT !.debug = ~@]
    [] key = "p" -> [d EXCEPT !.paused = ~@]
    [] key = "w" /\ ~d.paused -> [d EXCEPT !.wireframe = ~@]
    [] key = "r" /\ ~d.paused ->
         [d EXCEPT !.angle_x = Zero, !.angle_y = Zero, !.translation = <<Zero, Zero>>,
                   !.zoom = One, !.wireframe = FALSE]
    [] OTHER -> d
KeyDownKeepsDrag(key) ==
  /\ Handled
  /\ data' = KeyPressed(data, key)
  /\ ctx' = [RequestPaint(ctx, key \in {"d", "p"} \/ (key \in {"w", "r"} /\ ~data.paused))
               EXCEPT !.quit = (key = "q")]
  /\ last_mouse_pos' = IF key = "p" THEN PointZero ELSE last_mouse_pos
  /\ UNCHANGED <<dragging_rotation, dragging_translation>>
KeyDown(key) ==
  /\ Handled
  /\ data' = KeyPressed(data, key)
  /\ ctx' = [RequestPaint(ctx, key \in {"d", "p"} \/ (key \in {"w", "r"} /\ ~data.paused))
               EXCEPT !.quit = (key = "q")]
  /\ last_mouse_pos' = IF key = "p" THEN PointZero ELSE last_mouse_pos
  /\ dragging_rotation' = (key # "p" /\ dragging_rotation)
  /\ dragging_translation' = (key # "p" /\ dragging_translation)

\* MouseDown (lines 191-251) at pos with one of the buttons: a click inside
\* the cube starts a drag.
MouseDown(pos, buttons) ==
  /\ Handled
  /\ last_mouse_pos' = IF data.paused THEN last_mouse_pos ELSE pos
  /\ \E clicked_inside_cube \in {~data.paused /\ ClickedInsideCube(compute_projected_vertices(size, data), pos)} :
       \E button \in buttons :
          /\ dragging_rotation' = (dragging_rotation \/ (clicked_inside_cube /\ button = "Left"))
          /\ dragging_translation' = (dragging_translation \/ (clicked_inside_cube /\ button = "Right"))
  /\ UNCHANGED <<data, ctx>>

\* MouseMove (lines 252-271): a rotation drag turns the cube by a hundredth
\* of the pointer's way, a translation drag moves it by the pointer's way.
Dragged(d, delta_x, delta_y) ==
  IF d.paused THEN d
  ELSE IF dragging_rotation
       THEN [d EXCEPT !.angle_x = FAdd(@, FMul(delta_y, Hundredth)),
                      !.angle_y = FAdd(@, FMul(delta_x, Hundredth))]
  ELSE IF dragging_translation
       THEN [d EXCEPT !.translation = <<FAdd(@[1], delta_x), FAdd(@[2], delta_y)>>]
  ELSE d
MouseMove(pos) ==
  /\ Handled
  /\ data' = Dragged(data, FSub(pos[1], last_mouse_pos[1]), FSub(pos[2], last_mouse_pos[2]))
  /\ last_mouse_pos' = IF ~data.paused /\ (dragging_rotation \/ dragging_translation)
                       THEN pos ELSE last_mouse_pos
  /\ ctx' = RequestPaint(ctx, ~data.paused /\ (dragging_rotation \/ dragging_translation))
  /\ UNCHANGED <<dragging_rotation, dragging_translation>>

\* MouseUp (lines 272-285): the button's drag ends.
MouseUp(button) ==
  /\ Handled
  /\ dragging_rotation' = (dragging_rotation /\ (data.paused \/ button # "Left"))
  /\ dragging_translation' = (dragging_translation /\ (data.paused \/ button # "Right"))
  /\ UNCHANGED <<data, last_mouse_pos, ctx>>

\* Wheel (lines 286-293): the zoom is scaled and kept in [0.1, 10].
ZoomedUnclamped(zoom, delta) == FMul(zoom, FAdd(One, FMul(delta, Thousandth)))
Zoomed(zoom, delta) ==
  Clamp(FMul(zoom, FAdd(One, FMul(delta, Thousandth))), FDiv(One, F(10)), F(10))
WheelWhilePaused(delta) ==
  /\ Handled
  /\ data' = [data EXCEPT !.zoom = Zoomed(@, delta)]
  /\ ctx' = RequestPaint(ctx, TRUE)
  /\ UNCHANGED <<dragging_rotation, dragging_translation, last_mouse_pos>>
Wheel(delta) ==
  /\ Handled
  /\ data' = IF data.paused THEN data ELSE [data EXCEPT !.zoom = Zoomed(@, delta)]
  /\ ctx' = RequestPaint(ctx, ~data.paused)
  /\ UNCHANGED <<dragging_rotation, dragging_translation, last_mouse_pos>>

\* paint between the events: the first frame of the window, and one after
\* each request.
Repaint ==
  /\ ctx.connected
  /\ ~ctx.quit
  /\ ctx.paint_requested \/ snaps = <<>>
  /\ events < MaxEvents
  /\ events' = events + 1
  /\ ctx' = [ctx EXCEPT !.paint_requested = FALSE]
  /\ PaintFrame
  /\ UNCHANGED <<dragging_rotation, dragging_translation, last_mouse_pos>>

\* The widget laid out, no frame painted yet: before the window is connected,
\* once it is, or 314 ticks on.
InitEvents ==
  /\ width = 0
  /\ height = 0
  /\ pixel_data = ClearPixels(0, 0)
  /\ z_buffer = ClearDepths(0, 0)
  /\ calls = <<>>
  /\ snaps = <<>>
  /\ last = [visited |-> {}, written |-> {}, panicked |-> FALSE]
  /\ normal = NoNormal
  /\ position = NoNormal
  /\ light_pos = NoNormal
  /\ intensity = <<>>
  /\ size = SizeOf(EventSide, EventSide)
  /\ frames_since_last_update = 0
  /\ \E start \in {<<InitialState, Unconnected>>, <<Turned, Connected>>} :
        data = start[1] /\ ctx = start[2]
  /\ dragging_rotation = FALSE
  /\ dragging_translation = FALSE
  /\ last_mouse_pos = PointZero
  /\ events = 0
  /\ PureIdle

\* The events with the frames between them: the keys that change what is
\* drawn, clicks in the cube and beside it, one turn of the wheel.
NextEvents ==
  \/ WindowConnected
  \/ Timer
  \/ \E key \in {"p", "w", "r"} : KeyDown(key)
  \/ \E pos \in {<<F(2), F(2)>>, <<Half, Half>>} : MouseDown(pos, {"Left", "Right"})
  \/ \E pos \in {<<F(2), F(2)>>, <<Half, Half>>} : MouseMove(pos)
  \/ \E button \in {"Left", "Right"} : MouseUp(button)
  \/ Wheel(F(120))
  \/ Repaint

SpecEvents == InitEvents /\ [][NextEvents]_vars

\* The events alone, every key, button and wheel movement among them.
NextInput ==
  \/ WindowConnected
  \/ Timer
  \/ \E key \in Keys : KeyDown(key)
  \/ \E pos \in MousePoints : MouseDown(pos, Buttons)
  \/ \E pos \in MousePoints : MouseMove(pos)
  \/ \E button \in Buttons : MouseUp(button)
  \/ \E delta \in WheelDeltas : Wheel(delta)

SpecInput == InitEvents /\ [][NextInput]_vars
\* The window system delivers a timer that is pending.
SpecInputFair == SpecInput /\ WF_vars(Timer)

\* compute_projected_vertices by itself, as paint and MouseDown call it: for
\* a widget not laid out yet, a square and an oblong one, and states the
\* events lead to (turned by the timer or a drag, moved, zoomed).
NormalSizes == {SizeZero, SizeOf(EventSide, EventSide), SizeOf(2 * EventSide, EventSide + 2)}
NormalAngles == {Zero, Slanted, FNeg(Hundredth), Turned.angle_y}
NormalShifts == {<<Zero, Zero>>, <<F(3), FNeg(Half)>>}
NormalZooms == {One, Tenth}
NormalStates ==
  {[InitialState EXCEPT !.angle_x = ax, !.angle_y = ay, !.translation = t, !.zoom = z] :
     ax \in NormalAngles, ay \in NormalAngles, t \in NormalShifts, z \in NormalZooms}

InitNormals ==
  /\ width = 0
  /\ height = 0
  /\ pixel_data = ClearPixels(0, 0)
  /\ z_buffer = ClearDepths(0, 0)
  /\ calls = <<>>
  /\ snaps = <<>>
  /\ last = [visited |-> {}, written |-> {}, panicked |-> FALSE]
  /\ normal = NoNormal
  /\ position = NoNormal
  /\ light_pos = NoNormal
  /\ intensity = <<>>
  /\ size \in NormalSizes
  /\ frames_since_last_update = 0
  /\ data \in NormalStates
  /\ PointerIdle
  /\ PureIdle

\* One call of compute_projected_vertices; its result is kept.
ComputeVertices ==
  /\ vertices = <<>>
  /\ vertices' = compute_projected_vertices(size, data)
  /\ UNCHANGED <<size, frames_since_last_update, data>>
  /\ UNCHANGED <<color, shaded, corner, probe, edges, line, texel>>
  /\ UNCHANGED rasterVars
  /\ UNCHANGED lightVars
  /\ UNCHANGED pointerVars

NextNormals == ComputeVertices

SpecNormals == InitNormals /\ [][NextNormals]_vars

---------------------------------------------------------------------------
(* src/src/main.rs: the texel lookup of the textured draw_triangle *)

\* create_text_texture(text, 256, 256): every texture is 256 x 256 texels of
\* four bytes (ImageFormat::RgbaSeparate).
TextureSide == 256
FaceTexture ==
  [width |-> TextureSide, height |-> TextureSide, len |-> TextureSide * TextureSide * 4]

\* The uv of the corners of the two triangles (a, b, c), (a, c, d) of a face.
TriangleUVs ==
  { << <<Zero, One>>, <<One, One>>, <<One, Zero>> >>,
    << <<Zero, One>>, <<One, Zero>>, <<Zero, Zero>> >> }
\* Weights w / area: parts of one, a sum of products rounded past one or
\* below zero, and the quotients by an area of zero.
TexelWeights == {Zero, FDiv(One, F(4)), Half, One, FAdd(One, FDiv(One, F(16))), FDiv(F(-1), F(16)), NaN, PInf}

\* Lines 688-689: u and v of the pixel.
Interpolated(uvs, w, i) ==
  FAdd(FAdd(FMul(uvs[1][i], w[1]), FMul(uvs[2][i], w[2])), FMul(uvs[3][i], w[3]))
\* Lines 692-693: the texel coordinates as cast; v is flipped.
RawTexX(u, tex_width) == AsUsize(FMul(u, FSub(FromInt(tex_width), One)))
RawTexY(v, tex_height) == AsUsize(FMul(FSub(One, v), FSub(FromInt(tex_height), One)))
\* Lines 696-697: usize::min with the last column or row.
TexelCoordUnclamped(raw, side) == raw
TexelCoord(raw, side) == IF raw < side - 1 THEN raw ELSE side - 1
\* Line 700: the offset of the texel; a product beyond the model's integers
\* stands for an offset beyond every texture.
TexOffset(tex_x, tex_y, tex_width) ==
  IF tex_x > 2 ^ 20 \/ tex_y > 2 ^ 20 THEN 2147483647 - 3
  ELSE (tex_y * tex_width + tex_x) * 4
\* Lines 701-704: the four bytes at the offset are read; an index past the
\* end of the data panics.
Read(u, v, tex_x, tex_y, tex_offset, texture) ==
  [sampled |-> TRUE, u |-> u, v |-> v, tex_x |-> tex_x, tex_y |-> tex_y,
   tex_offset |-> tex_offset,
   read |-> {tex_offset + j : j \in 0 .. 3},
   panicked |-> tex_offset + 3 >= texture.len]
Looked(u, v, tex_x, tex_y, texture) ==
  Read(u, v, tex_x, tex_y, TexOffset(tex_x, tex_y, texture.width), texture)
Lookup(u, v, texture) ==
  Looked(u, v, TexelCoord(RawTexX(u, texture.width), texture.width),
         TexelCoord(RawTexY(v, texture.height), texture.height), texture)

InitTexture ==
  /\ width = 0
  /\ height = 0
  /\ pixel_data = ClearPixels(0, 0)
  /\ z_buffer = ClearDepths(0, 0)
  /\ calls = <<>>
  /\ snaps = <<>>
  /\ last = [visited |-> {}, written |-> {}, panicked |-> FALSE]
  /\ normal = NoNormal
  /\ position = NoNormal
  /\ light_pos = NoNormal
  /\ intensity = <<>>
  /\ size = SizeZero
  /\ frames_since_last_update = 0
  /\ data = InitialState
  /\ PointerIdle
  /\ color = <<0, 0, 0, 0>>
  /\ shaded = <<>>
  /\ corner = <<>>
  /\ probe = <<>>
  /\ edges = <<>>
  /\ vertices = <<>>
  /\ line = [pc |-> "idle"]
  /\ \E uvs \in TriangleUVs, w0 \in TexelWeights, w1 \in TexelWeights, w2 \in TexelWeights :
        texel = [sampled |-> FALSE, uvs |-> uvs, w |-> <<w0, w1, w2>>]

\* The lookup for one pixel that passed the depth test.
SampleTexture ==
  /\ ~texel.sampled
  /\ texel' = Lookup(Interpolated(texel.uvs, texel.w, 1), Interpolated(texel.uvs, texel.w, 2),
                     FaceTexture)
  /\ UNCHANGED <<size, frames_since_last_update, data>>
  /\ UNCHANGED <<color, shaded, corner, probe, edges, line, vertices>>
  /\ UNCHANGED rasterVars
  /\ UNCHANGED lightVars
  /\ UNCHANGED pointerVars

NextTexture == SampleTexture

SpecTexture == InitTexture /\ [][NextTexture]_vars

\* Pixel (x, y) of the frame.
PixelAt(x, y) ==
  <<pixel_data[(y * width + x) * 4], pixel_data[(y * width + x) * 4 + 1],
    pixel_data[(y * width + x) * 4 + 2], pixel_data[(y * width + x) * 4 + 3]>>
\* A frame of the scenario: the largest square viewport, no rotation, no
\* translation, filled; the cube projects onto the middle half of each side.
ScenarioFrame ==
  /\ width = MaxSide
  /\ height = MaxSide
  /\ data = InitialState
Inner == (MaxSide \div 4) .. ((3 * MaxSide) \div 4 - 1)

\* C7: in the frame of the scenario the face (0, 1, 2, 3), the nearest one at
\* z = -1, fills the square the cube projects onto with its base colour, red,
\* dimmed by the lighting only, and every pixel of the square keeps the depth
\* of that face, the other faces being rejected behind it.
C7_FrontFaceFillsSquare ==
  ScenarioFrame =>
    \A x \in Inner, y \in Inner :
       /\ PixelAt(x, y)[1] >= 25
       /\ PixelAt(x, y)[2] = 0
       /\ PixelAt(x, y)[3] = 0
       /\ PixelAt(x, y)[4] = 255
       /\ z_buffer[y * width + x] = FromInt(-1)

\* C8: a viewport below 10 x 10 is rejected before the rasterizer: the frame's
\* buffers stay blank, every byte 0 and every depth +infinity, and nothing
\* panics.
C8_SmallViewportRejected ==
  (width < 10 \/ height < 10) =>
    /\ ~last.panicked
    /\ \A i \in DOMAIN pixel_data : pixel_data[i] = 0
    /\ \A o \in DOMAIN z_buffer : z_buffer[o] = PInf

\* A frame has been painted; some pixel of it is not blank.
Painted == snaps # <<>>
SomethingDrawn == \E i \in DOMAIN pixel_data : pixel_data[i] # 0

\* C16: the two modes exclude each other in a frame.  A wireframe frame calls
\* draw_line only, once for each of the 12 edges in their order, never
\* draw_triangle, and its depth buffer stays at +infinity throughout; a
\* filled frame calls draw_triangle only.
C16_ModesExclusive ==
  Painted =>
    IF data.wireframe
    THEN /\ Len(calls) = 12
         /\ \A i \in DOMAIN calls : calls[i] = LineCall(i, Edges[i][1], Edges[i][2])
         /\ \A o \in DOMAIN z_buffer : z_buffer[o] = PInf
    ELSE \A i \in DOMAIN calls : calls[i].fn = "draw_triangle"

\* C16 witness: a wireframe frame of the largest viewport with white pixels.
C16_Witness ==
  /\ Painted
  /\ data.wireframe
  /\ width = MaxSide
  /\ \E x \in 0 .. (width - 1), y \in 0 .. (height - 1) : PixelAt(x, y) = White

\* C19: a filled frame draws each quad (a, b, c, d) as the triangle (a, b, c)
\* and then the triangle (a, c, d), both with the colour of the face: 12
\* calls of draw_triangle, two for each of the 6 faces in their order.
C19_QuadsAsTwoTriangles ==
  (Painted /\ ~data.wireframe) =>
    /\ Len(calls) = 12
    /\ \A k \in 1 .. 6 :
         /\ calls[2 * k - 1] =
              [fn |-> "draw_triangle", at |-> <<Faces[k][1], Faces[k][2], Faces[k][3]>>,
               face |-> k, color |-> FaceColors[k]]
         /\ calls[2 * k] =
              [fn |-> "draw_triangle", at |-> <<Faces[k][1], Faces[k][3], Faces[k][4]>>,
               face |-> k, color |-> FaceColors[k]]

\* C19 witness: a filled frame of the turned cube on the largest viewport.
C19_Witness ==
  /\ Painted
  /\ ~data.wireframe
  /\ data.angle_x = Slanted
  /\ width = MaxSide
  /\ SomethingDrawn

\* The z coordinates of the four corners of face k, added up: four times the
\* z of its centre.
CentreZ(vs, k) ==
  FAdd(FAdd(vs[Faces[k][1]].position[3], vs[Faces[k][2]].position[3]),
       FAdd(vs[Faces[k][3]].position[3], vs[Faces[k][4]].position[3]))
BackToFront(vs) ==
  \A i \in DOMAIN calls : \A j \in DOMAIN calls :
     i < j => FGe(CentreZ(vs, calls[i].face), CentreZ(vs, calls[j].face))
\* C20: a filled frame processes the faces back to front, in the order of
\* descending z of their centres.
C20_FacesBackToFront ==
  (Painted /\ ~data.wireframe /\ width > 0 /\ height > 0) =>
    BackToFront(compute_projected_vertices(SizeOf(width, height), data))

\* C17: every frame starts from fresh buffers.  When paint begins, before any
\* primitive is drawn, every pixel byte is 0 and every depth is +infinity,
\* whatever the frames before drew; nothing of an earlier frame shows in a
\* later one: a wireframe frame that follows filled frames has no finite
\* depth and no pixel that is neither white nor blank.
C17_FrameStartsFresh ==
  Painted =>
    /\ DOMAIN snaps[1].pixel_data = 0 .. (width * height * 4 - 1)
    /\ \A i \in DOMAIN snaps[1].pixel_data : snaps[1].pixel_data[i] = 0
    /\ DOMAIN snaps[1].z_buffer = 0 .. (width * height - 1)
    /\ \A i \in DOMAIN snaps[1].z_buffer : snaps[1].z_buffer[i] = PInf
    /\ last.drawn.wireframe =>
         /\ \A i \in DOMAIN z_buffer : z_buffer[i] = PInf
         /\ \A x \in 0 .. (width - 1), y \in 0 .. (height - 1) :
               PixelAt(x, y) \in {White, <<0, 0, 0, 0>>}

\* A wireframe frame was painted as the second frame: the first frame drew
\* the cube, filled before the w key or as a wireframe after it.
C17_Witness ==
  /\ Painted
  /\ events = 3
  /\ frames_since_last_update = 2
  /\ last.drawn = [InitialState EXCEPT !.wireframe = TRUE]
  /\ \E x \in 0 .. (width - 1), y \in 0 .. (height - 1) : PixelAt(x, y) = White

\* The angle a is in [0, 2 pi): not negative, and below 2 pi in fixed point
\* (four times HalfPiFix is the first multiple of 2^-FixBits above 2 pi).
InTurn(a) == IsFin(a) /\ ~FLt(a, Zero) /\ ToFixed(a) < 4 * HalfPiFix

\* C18: whenever a frame is rendered, after any timer ticks, rotation drags
\* and resets, the angles angle_x and angle_y it is drawn from are in
\* [0, 2 pi).
C18_AnglesWrapped ==
  (Painted /\ events > 0) => InTurn(last.drawn.angle_x) /\ InTurn(last.drawn.angle_y)

\* The rounded start point of the call, and the larger of the two distances
\* between the rounded end points.
LineStart == <<AsIsize(probe[1][1]), AsIsize(probe[1][2])>>
LineSpan ==
  IF Abs(LineEnd[1] - LineStart[1]) >= Abs(LineEnd[2] - LineStart[2])
  THEN Abs(LineEnd[1] - LineStart[1]) ELSE Abs(LineEnd[2] - LineStart[2])
\* The loop begins at the start point; a call that has ended was at
\* LineSpan + 1 points, the start and the end point among them.
PathCounted ==
  /\ (line.pc = "loop" /\ last.visited = {}) => (line.x0 = LineStart[1] /\ line.y0 = LineStart[2])
  /\ line.pc \in {"done", "panicked"} =>
       /\ Cardinality(last.visited) = LineSpan + 1
       /\ LineStart \in last.visited
       /\ LineEnd \in last.visited
       /\ line.x0 = LineEnd[1] /\ line.y0 = LineEnd[2]
\* A turn of the loop that goes on moves the point, by at most 1 in x and in
\* y, and no farther from the end point in either.
StepsToward ==
  line'.pc # "done" =>
    /\ <<line'.x0, line'.y0>> # <<line.x0, line.y0>>
    /\ Abs(line'.x0 - line.x0) <= 1
    /\ Abs(line'.y0 - line.y0) <= 1
    /\ Abs(line.x1 - line'.x0) <= Abs(line.x1 - line.x0)
    /\ Abs(line.y1 - line'.y0) <= Abs(line.y1 - line.y0)

ZAt(t, x, y) ==
  InterpPosition(t.v0, t.v1, t.v2,
                 Weights(EdgeValues(t.v0, t.v1, t.v2, PixelCentre(x, y)), LastArea))[3]
InsideAt(t, x, y) ==
  <<x, y>> \in last.visited /\ InsideTest(EdgeValues(t.v0, t.v1, t.v2, PixelCentre(x, y)))
PassesAt(t, x, y) == InsideAt(t, x, y) /\ FLt(ZAt(t, x, y), Before.z_buffer[y * width + x])
\* Pixel o holds the colour and the depth it held before the last call.
KeptAt(o) ==
  /\ z_buffer[o] = Before.z_buffer[o]
  /\ BytesAt(pixel_data, o) = BytesAt(Before.pixel_data, o)

\* C22: draw_triangle writes a pixel's colour exactly when it lowers the
\* pixel's depth.  At every offset the four colour bytes are written by a call
\* if and only if the z interpolated at the pixel is strictly below the depth
\* stored, and then the depth becomes that z; at every other offset (depth
\* test failed, outside the triangle, outside the bounding box) colour and
\* depth are as before the call.
C22_ColourWithDepth ==
  calls # <<>> =>
    \A x \in 0 .. (width - 1), y \in 0 .. (height - 1) :
       IF PassesAt(LastCall.tri, x, y)
       THEN /\ (y * width + x) \in last.written
            /\ z_buffer[y * width + x] = ZAt(LastCall.tri, x, y)
            /\ FLt(z_buffer[y * width + x], Before.z_buffer[y * width + x])
       ELSE /\ (y * width + x) \notin last.written
            /\ KeptAt(y * width + x)

\* C22 witness: the second call of a frame took one pixel from the first
\* call, failed the depth test at another and left a third, outside its
\* triangle, alone.
C22_Witness ==
  /\ Len(calls) = 2
  /\ \E o \in last.written : FLt(Before.z_buffer[o], PInf)
  /\ \E p \in last.visited :
        /\ InsideAt(LastCall.tri, p[1], p[2])
        /\ ~PassesAt(LastCall.tri, p[1], p[2])
        /\ FLt(Before.z_buffer[p[2] * width + p[1]], PInf)
  /\ \E p \in last.visited : ~InsideAt(LastCall.tri, p[1], p[2])

\* The call before the last of the frame.  Two triangles share an edge when
\* they have two vertices in common; the centre of pixel (x, y) is on the
\* border of t when no edge value is negative and one is zero.
PreviousCall == CallList[calls[Len(calls) - 1]]
SharesEdge(t, u) == Cardinality({t.v0, t.v1, t.v2} \cap {u.v0, u.v1, u.v2}) = 2
OnBorder(e) ==
  /\ \A k \in 1 .. 3 : FGe(e[k], Zero)
  /\ \E k \in 1 .. 3 : FEq(e[k], Zero)
OnSharedEdge(t, u, x, y) ==
  /\ OnBorder(EdgeValues(t.v0, t.v1, t.v2, PixelCentre(x, y)))
  /\ OnBorder(EdgeValues(u.v0, u.v1, u.v2, PixelCentre(x, y)))
\* The frame holds two calls, of triangles that share an edge.
EdgeShared == Len(calls) = 2 /\ SharesEdge(PreviousCall.tri, LastCall.tri)

\* C24 as stated: when two triangles that share an edge are drawn one after
\* the other, a pixel whose centre lies exactly on the shared edge passes the
\* inside test of both, is shaded twice, and is left in the colour of the
\* triangle drawn later.
C24_SharedEdgeLastWins ==
  EdgeShared =>
    \A x \in 0 .. (width - 1), y \in 0 .. (height - 1) :
       OnSharedEdge(PreviousCall.tri, LastCall.tri, x, y) =>
         /\ (y * width + x) \in AlonePrevious.written
         /\ (y * width + x) \in last.written
         /\ BytesAt(pixel_data, y * width + x) = BytesAt(AloneLast.pixel_data, y * width + x)

\* C24 as amended: such a pixel passes the inside test of both triangles and
\* is shaded by the first; the second shades it again only if it interpolates
\* a z strictly below the one stored, and where both interpolate the same z
\* the pixel is shaded once and keeps the colour of the triangle drawn first.
C24_SharedEdgeFirstWins ==
  EdgeShared =>
    \A x \in 0 .. (width - 1), y \in 0 .. (height - 1) :
       OnSharedEdge(PreviousCall.tri, LastCall.tri, x, y) =>
         /\ (y * width + x) \in AlonePrevious.written
         /\ InsideAt(LastCall.tri, x, y)
         /\ ((y * width + x) \in last.written) <=>
              FLt(ZAt(LastCall.tri, x, y), Before.z_buffer[y * width + x])
         /\ (ZAt(LastCall.tri, x, y) = Before.z_buffer[y * width + x]) =>
              /\ (y * width + x) \notin last.written
              /\ BytesAt(pixel_data, y * width + x) = BytesAt(AlonePrevious.pixel_data, y * width + x)

\* C24 witness: Near and Hinged were drawn, in different colours, and a
\* pixel on their common edge has the depth both give it and the colour of
\* the first, not that of the second, which wrote other pixels.
C24_Witness ==
  /\ EdgeShared
  /\ width = MaxWidth
  /\ height = MaxHeight
  /\ \E x \in 0 .. (width - 1), y \in 0 .. (height - 1) :
        /\ OnSharedEdge(PreviousCall.tri, LastCall.tri, x, y)
        /\ ZAt(LastCall.tri, x, y) = Before.z_buffer[y * width + x]
        /\ (y * width + x) \notin last.written
        /\ BytesAt(pixel_data, y * width + x) # BytesAt(AloneLast.pixel_data, y * width + x)
  /\ last.written # {}

\* C26: in every state the widget reaches, paused means that no drag is in
\* progress: dragging_rotation and dragging_translation are both false.
C26_PausedNotDragging == data.paused => (~dragging_rotation /\ ~dragging_translation)

\* C26 witness: the cube was dragged round (its angle fell below zero), then
\* p was pressed: paused, the drag over, the mouse position reset.
C26_Witness ==
  /\ data.paused
  /\ FLt(data.angle_x, Zero)
  /\ ~dragging_rotation
  /\ ~dragging_translation
  /\ last_mouse_pos = PointZero
  /\ events = MaxEvents

\* C25: the zoom stays in [0.1, 10] in every state the widget reaches, and
\* the scale of the projection made from it is above zero for a widget of
\* positive size.
C25_ZoomInRange ==
  /\ FLe(Tenth, data.zoom)
  /\ FLe(data.zoom, F(10))
  /\ (FLt(Zero, size.width) /\ FLt(Zero, size.height)) => FLt(Zero, Scale(size, data))

\* C25 witness: two movements of the wheel, the first took the zoom below
\* the range and left it at 0.1, the second scaled it up from there.
C25_Witness ==
  /\ data.zoom = ZoomedUnclamped(Tenth, F(120))
  /\ FLt(Tenth, data.zoom)
  /\ events = 2
  /\ ctx.paint_requested
  /\ FLt(Zero, size.width)
  /\ FLt(Zero, size.height)
  /\ Scale(size, data) = data.zoom

\* The fields that make the scene.
SceneOf(d) == <<d.angle_x, d.angle_y, d.translation, d.zoom, d.wireframe, d.light_position>>

\* C27: while paused is true no event changes angle_x, angle_y, translation,
\* zoom, wireframe or light_position, and an event that is not p, d or q
\* (one that leaves paused and debug as they are and does not quit) changes
\* nothing of the state, the drag flags, the mouse position or the paint
\* request.
C27_PausedFrozen ==
  [][data.paused =>
       /\ SceneOf(data') = SceneOf(data)
       /\ (data'.paused = data.paused /\ data'.debug = data.debug /\ ctx'.quit = ctx.quit) =>
            /\ data' = data
            /\ dragging_rotation' = dragging_rotation
            /\ dragging_translation' = dragging_translation
            /\ last_mouse_pos' = last_mouse_pos
            /\ ctx'.paint_requested = ctx.paint_requested]_vars

\* C27 witness: from the start, w and the wheel changed the scene and p
\* paused it; with three events handled and no reset the timer's tick can
\* only have come during the pause, and the angles are still zero.
C27_Witness ==
  /\ data.paused
  /\ data.wireframe
  /\ data.zoom = Zoomed(One, F(120))
  /\ events = 3
  /\ ctx.ticks = 1
  /\ data.angle_x = Zero
  /\ data.angle_y = Zero

\* A step that handles a Timer event: the tick is counted.
TimerFired == ctx'.ticks = ctx.ticks + 1

\* C28: a Timer event advances the animation exactly when the widget is
\* neither paused nor dragged: then 0.01 is added to angle_x, 0.02 to
\* angle_y and a paint is requested; otherwise the application state is
\* unchanged and no paint is requested.
C28_TimerAdvancesWhenFree ==
  [][TimerFired =>
       IF ~data.paused /\ ~dragging_rotation /\ ~dragging_translation
       THEN /\ data' = [data EXCEPT !.angle_x = FAdd(data.angle_x, Hundredth),
                                    !.angle_y = FAdd(data.angle_y, Fiftieth)]
            /\ ctx'.paint_requested
       ELSE /\ data' = data
            /\ ctx'.paint_requested = ctx.paint_requested]_vars

\* C28 witness: the timer fired during a rotation drag in the turned cube:
\* the angles are those of the start and no paint was requested.
C28_Witness ==
  /\ ctx.ticks = 1
  /\ dragging_rotation
  /\ ~data.paused
  /\ data = Turned
  /\ ~ctx.paint_requested
  /\ events = 1

\* One timer is pending from WindowConnected on.
TimerPending == ctx.connected => ctx.timers = 1

\* A tick of a widget that is neither paused nor dragged moves both angles on.
TickAdvances ==
  (TimerFired /\ ~data.paused /\ ~dragging_rotation /\ ~dragging_translation) =>
     (FLt(data.angle_x, data'.angle_x) /\ FLt(data.angle_y, data'.angle_y))

FacesOf(i) == {k \in 1 .. Len(Faces) : \E j \in 1 .. 4 : Faces[k][j] = i}
FirstOf(ks) == CHOOSE k \in ks : \A j \in ks : k <= j
\* The normal of face k from its first three vertices as transformed.
NormalOfFace(tv, k) == calculate_normal(tv[Faces[k][1]], tv[Faces[k][2]], tv[Faces[k][3]])
\* Zero plus the normals of the faces ks, lowest face first.
SumOfThree(tv, k1, k2, k3) ==
  Add3(Add3(Add3(<<Zero, Zero, Zero>>, NormalOfFace(tv, k1)), NormalOfFace(tv, k2)),
       NormalOfFace(tv, k3))
SumAt(tv, ks) ==
  SumOfThree(tv, FirstOf(ks), FirstOf(ks \ {FirstOf(ks)}),
             FirstOf(ks \ {FirstOf(ks), FirstOf(ks \ {FirstOf(ks)})}))
\* v divided by its length once.
UnitOf(v) ==
  <<FDiv(v[1], FSqrt(FAdd(FAdd(FMul(v[1], v[1]), FMul(v[2], v[2])), FMul(v[3], v[3])))),
    FDiv(v[2], FSqrt(FAdd(FAdd(FMul(v[1], v[1]), FMul(v[2], v[2])), FMul(v[3], v[3])))),
    FDiv(v[3], FSqrt(FAdd(FAdd(FMul(v[1], v[1]), FMul(v[2], v[2])), FMul(v[3], v[3]))))>>
\* The squared length of v is 1 within the rounding of the number model.
NearUnit(v) ==
  /\ FLe(FSub(One, FDiv(One, F(16))), Dot3(v, v))
  /\ FLe(Dot3(v, v), FAdd(One, FDiv(One, F(16))))
Laid == FLt(Zero, size.width) /\ FLt(Zero, size.height)

\* C23: every vertex of the cube is in exactly three faces, and its normal
\* is the sum, taken from zero in face order, of the normals those faces
\* have by their first three transformed vertices, divided once by its
\* length; for a widget that is laid out it is a unit vector.
C23_NormalsSummedThenNormalized ==
  vertices # <<>> =>
    \A i \in 0 .. 7 :
       /\ Cardinality(FacesOf(i)) = 3
       /\ vertices[i].normal = UnitOf(SumAt([j \in 0 .. 7 |-> vertices[j].position], FacesOf(i)))
       /\ Laid => NearUnit(vertices[i].normal)

\* C23 witness: the normals of a cube turned about both axes, moved and
\* zoomed, in an oblong widget: vertex 0 has a normal of three components
\* that are not zero, a unit vector.
C23_Witness ==
  /\ vertices # <<>>
  /\ size = SizeOf(2 * EventSide, EventSide + 2)
  /\ data.angle_x = Slanted
  /\ data.angle_y = Turned.angle_y
  /\ data.translation # <<Zero, Zero>>
  /\ data.zoom = Tenth
  /\ \A j \in 1 .. 3 : IsFin(vertices[0].normal[j]) /\ vertices[0].normal[j] # Zero
  /\ NearUnit(vertices[0].normal)

\* C21: a texel lookup never reads outside the texture: for every u and v
\* interpolated for a pixel, tex_x <= tex_width - 1, tex_y <= tex_height - 1
\* and the four bytes read lie in the texture's data; v = 1 gives row 0 and
\* v = 0 the last row.
C21_TexelInTexture ==
  texel.sampled =>
    /\ ~texel.panicked
    /\ texel.tex_x \in 0 .. (FaceTexture.width - 1)
    /\ texel.tex_y \in 0 .. (FaceTexture.height - 1)
    /\ texel.read \subseteq 0 .. (FaceTexture.len - 1)
    /\ texel.read = {(texel.tex_y * FaceTexture.width + texel.tex_x) * 4 + j : j \in 0 .. 3}
    /\ FEq(texel.v, One) => texel.tex_y = 0
    /\ FEq(texel.v, Zero) => texel.tex_y = FaceTexture.height - 1

\* C21 witness: u and v came out above one; the lookup read the last texel
\* of row 0.
C21_Witness ==
  /\ texel.sampled
  /\ FLt(One, texel.u)
  /\ FLt(One, texel.v)
  /\ texel.tex_x = FaceTexture.width - 1
  /\ texel.tex_y = 0
  /\ texel.tex_offset = (FaceTexture.width - 1) * 4
  /\ ~texel.panicked

=============================================================================
